---- MODULE Spec2Model ----
(***************************************************************************)
(* CitizenVote: the voter ingestion / duplicate policy and the read-side   *)
(* aggregation of the two Express+SQLite servers of the repository:        *)
(*   server/app.js    (src/unnamed/part_002, callbacks, no auth)           *)
(*   server/server.js (src/unnamed/part_001, async/await, auth)            *)
(* Both run against the same SQLite file, so the model holds one store     *)
(* (db) and one operator per route handler of each file.                   *)
(***************************************************************************)
EXTENDS Integers, Sequences, FiniteSets, TLC

VARIABLES db, resp, calls, boot

vars == <<db, resp, calls, boot>>

(***************************************************************************)
(* Bounds of the model.                                                    *)
(***************************************************************************)
MaxVoterId == 2

MaxCandidateId == 2

MaxDistrictId == 1

MaxCalls == 2

\* Requests of the candidate full view in flight.
MaxViews == 1

\* Requests in flight at once in the runs on the duplicate review, the
\* district distribution and the weekly growth.
MaxPending == 1

\* Requests received while ensureSchema is still running.
MaxEarly == 1

\* LIMIT of the voters list of the candidate full view, per file.
RecentVotersLimitApp == 500

RecentVotersLimitServer == 300

(***************************************************************************)
(* Values.  A JavaScript value of a request body and an SQLite value of a  *)
(* column are records of one shape [t, n, e, s]: t is the type tag, s the  *)
(* string, and n, e the number n * 10^(-e), kept in lowest terms (e = 0    *)
(* for an integer, otherwise n is not a multiple of 10).                   *)
(*   JS:     "undef", "jnull", "num", "inf", "nan", "str"                  *)
(*   SQLite: "null", "int", "real", "realinf", "text"                      *)
(* Numbers are those TLC can hold (32-bit mantissa); a numeral beyond that *)
(* has no value here.                                                      *)
(***************************************************************************)
Undef == [t |-> "undef", n |-> 0, e |-> 0, s |-> ""]

JNull == [t |-> "jnull", n |-> 0, e |-> 0, s |-> ""]

JNaN == [t |-> "nan", n |-> 0, e |-> 0, s |-> ""]

JNum(k) == [t |-> "num", n |-> k, e |-> 0, s |-> ""]

\* Infinity (sign 1) and -Infinity (sign -1)
JInf(sign) == [t |-> "inf", n |-> sign, e |-> 0, s |-> ""]

JStr(x) == [t |-> "str", n |-> 0, e |-> 0, s |-> x]

SqlNull == [t |-> "null", n |-> 0, e |-> 0, s |-> ""]

SqlInt(k) == [t |-> "int", n |-> k, e |-> 0, s |-> ""]

SqlInf(sign) == [t |-> "realinf", n |-> sign, e |-> 0, s |-> ""]

SqlText(x) == [t |-> "text", n |-> 0, e |-> 0, s |-> x]

RECURSIVE Pow10(_)
Pow10(k) == IF k <= 0 THEN 1 ELSE 10 * Pow10(k - 1)

\* m * 10^(-e) in lowest terms, as <<n, e>>.
RECURSIVE Lowest(_, _)
Lowest(m, e) ==
  IF e < 0 THEN <<m * Pow10(-e), 0>>
  ELSE IF e > 0 /\ m % 10 = 0 THEN Lowest(m \div 10, e - 1)
  ELSE <<m, e>>

\* The JS number m * 10^(-e).
JDec(m, e) ==
  [t |-> "num", n |-> Lowest(m, e)[1], e |-> Lowest(m, e)[2], s |-> ""]

\* The SQLite number m * 10^(-e): INTEGER when it is whole, REAL otherwise.
SqlNumber(m, e) ==
  [t |-> IF Lowest(m, e)[2] = 0 THEN "int" ELSE "real",
   n |-> Lowest(m, e)[1], e |-> Lowest(m, e)[2], s |-> ""]

(***************************************************************************)
(* Numerals.  Strings are read character by character.                     *)
(***************************************************************************)
Digits == <<"0", "1", "2", "3", "4", "5", "6", "7", "8", "9">>

DigitChars == {Digits[i] : i \in 1..Len(Digits)}

HexDigits ==
  <<"0", "1", "2", "3", "4", "5", "6", "7", "8", "9", "a", "b", "c", "d", "e", "f">>

UpperHexDigits ==
  <<"0", "1", "2", "3", "4", "5", "6", "7", "8", "9", "A", "B", "C", "D", "E", "F">>

\* JS StrWhiteSpaceChar (WhiteSpace and LineTerminator), which unary plus
\* strips from both ends of a string and parseInt from its front: TAB, LF,
\* VT, FF, CR, SP, NBSP, U+1680 and U+FEFF.  Its other characters (U+2000 to
\* U+200A, U+2028, U+2029, U+202F, U+205F, U+3000) cannot be written in a
\* string here, so no string of the model holds them.
StrWhiteSpace == {" ", "\t", "\n", "", "\f", "\r", " ", " ", "﻿"}

\* sqlite3Isspace, the white space SQLite allows around a numeral: SP, TAB,
\* LF, VT, FF, CR.
SqliteSpace == {" ", "\t", "\n", "", "\f", "\r"}

\* The character at position i of s, "" outside s.
Char(s, i) == IF i >= 1 /\ i <= Len(s) THEN SubSeq(s, i, i) ELSE ""

\* The first position from i on whose character is not in W.
RECURSIVE SkipAll(_, _, _)
SkipAll(s, i, W) == IF Char(s, i) \in W THEN SkipAll(s, i + 1, W) ELSE i

\* The last position up to j whose character is not in W.
RECURSIVE SkipBack(_, _, _)
SkipBack(s, j, W) == IF Char(s, j) \in W THEN SkipBack(s, j - 1, W) ELSE j

\* s without the characters of W at its two ends.
Trim(s, W) == SubSeq(s, SkipAll(s, 1, W), SkipBack(s, Len(s), W))

\* The value of digit c in a radix up to 16.
DigitOf(c) ==
  IF \E k \in 1..16 : HexDigits[k] = c
    THEN (CHOOSE k \in 1..16 : HexDigits[k] = c) - 1
  ELSE (CHOOSE k \in 1..16 : UpperHexDigits[k] = c) - 1

RadixChars(radix) ==
  {HexDigits[k] : k \in 1..radix} \cup {UpperHexDigits[k] : k \in 1..radix}

\* The number the digits s[i..j] denote in the radix; 0 when there is none.
RECURSIVE NatOf(_, _, _, _)
NatOf(s, i, j, radix) ==
  IF i > j THEN 0 ELSE radix * NatOf(s, i, j - 1, radix) + DigitOf(Char(s, j))

\* A decimal numeral: sign, digits, fraction, exponent, with at least one
\* digit before the exponent and nothing after it.  ok tells whether s is
\* one, n and e are its value.
Numeral(s) ==
  LET sign == IF Char(s, 1) = "-" THEN -1 ELSE 1
      i1 == IF Char(s, 1) \in {"-", "+"} THEN 2 ELSE 1
      i2 == SkipAll(s, i1, DigitChars)
      f1 == IF Char(s, i2) = "." THEN i2 + 1 ELSE i2
      f2 == SkipAll(s, f1, DigitChars)
      hasExp == Char(s, f2) \in {"e", "E"}
      x1 == IF ~hasExp THEN f2
            ELSE IF Char(s, f2 + 1) \in {"-", "+"} THEN f2 + 2 ELSE f2 + 1
      x2 == SkipAll(s, x1, DigitChars)
      xsign == IF hasExp /\ Char(s, f2 + 1) = "-" THEN -1 ELSE 1
      mant == NatOf(s, i1, i2 - 1, 10) * Pow10(f2 - f1) + NatOf(s, f1, f2 - 1, 10)
      val == Lowest(sign * mant, (f2 - f1) - xsign * NatOf(s, x1, x2 - 1, 10))
  IN IF (i2 - i1) + (f2 - f1) >= 1 /\ (hasExp => x2 > x1) /\ x2 = Len(s) + 1
       THEN [ok |-> TRUE, n |-> val[1], e |-> val[2]]
     ELSE [ok |-> FALSE, n |-> 0, e |-> 0]

\* SQLite: the text x looks like a number (white space around it allowed).
IsNumeric(x) == Numeral(Trim(x, SqliteSpace)).ok

\* The SQLite number the numeric text x denotes.
NumericValue(x) ==
  SqlNumber(Numeral(Trim(x, SqliteSpace)).n, Numeral(Trim(x, SqliteSpace)).e)

\* The radix of a JS literal 0x.., 0o.., 0b.. with at least one digit, all of
\* them digits of the radix; 0 when s is none.
RadixOf(s) ==
  LET r == CASE Char(s, 2) \in {"x", "X"} -> 16
             [] Char(s, 2) \in {"o", "O"} -> 8
             [] Char(s, 2) \in {"b", "B"} -> 2
             [] OTHER -> 0
  IN IF Char(s, 1) = "0" /\ r # 0 /\ Len(s) >= 3
        /\ SkipAll(s, 3, RadixChars(r)) = Len(s) + 1
       THEN r
     ELSE 0

\* JS ToNumber of a string (StringToNumber).
StringToNumber(x) ==
  LET s == Trim(x, StrWhiteSpace)
  IN IF s = "" THEN JNum(0)
     ELSE IF s \in {"Infinity", "+Infinity"} THEN JInf(1)
     ELSE IF s = "-Infinity" THEN JInf(-1)
     ELSE IF RadixOf(s) # 0 THEN JNum(NatOf(s, 3, Len(s), RadixOf(s)))
     ELSE IF Numeral(s).ok THEN JDec(Numeral(s).n, Numeral(s).e)
     ELSE JNaN

\* k zeros
RECURSIVE Zeros(_)
Zeros(k) == IF k <= 0 THEN "" ELSE "0" \o Zeros(k - 1)

Abs(k) == IF k < 0 THEN -k ELSE k

\* The decimal exponent of the first digit of n * 10^(-e).
LeadingExponent(n, e) == Len(ToString(Abs(n))) - e - 1

\* n * 10^(-e), e > 0, written with a decimal point: 1.5, 0.05, -12.25
FixedText(n, e) ==
  LET whole == Abs(n) \div Pow10(e)
      frac == ToString(Abs(n) % Pow10(e))
  IN (IF n < 0 THEN "-" ELSE "") \o ToString(whole) \o "."
       \o Zeros(e - Len(frac)) \o frac

\* JS Number::toString, which parseInt applies to a number.
NumberText(v) ==
  LET d == ToString(Abs(v.n))
      x == LeadingExponent(v.n, v.e)
  IN CASE v.t = "nan" -> "NaN"
       [] v.t = "inf" -> IF v.n < 0 THEN "-Infinity" ELSE "Infinity"
       [] v.e = 0 -> ToString(v.n)
       [] x >= -6 -> FixedText(v.n, v.e)
       [] OTHER -> (IF v.n < 0 THEN "-" ELSE "") \o SubSeq(d, 1, 1)
                     \o (IF Len(d) > 1 THEN "." \o SubSeq(d, 2, Len(d)) ELSE "")
                     \o "e-" \o ToString(-x)

\* SQLite's text of a REAL (%!.15g): 1.5, 0.0001, 1.0e-05, 2.5e-07
RealText(n, e) ==
  LET d == ToString(Abs(n))
      x == LeadingExponent(n, e)
  IN IF x >= -4 THEN FixedText(n, e)
     ELSE (IF n < 0 THEN "-" ELSE "") \o SubSeq(d, 1, 1) \o "."
            \o (IF Len(d) > 1 THEN SubSeq(d, 2, Len(d)) ELSE "0")
            \o "e-" \o (IF -x < 10 THEN "0" ELSE "") \o ToString(-x)

\* JS truthiness: undefined, null, NaN, 0 and "" are falsy.
Truthy(v) ==
  CASE v.t = "undef" -> FALSE
    [] v.t = "jnull" -> FALSE
    [] v.t = "nan" -> FALSE
    [] v.t = "num" -> v.n # 0
    [] v.t = "str" -> v.s # ""
    [] OTHER -> TRUE

\* JS  a || b
Or(a, b) == IF Truthy(a) THEN a ELSE b

\* JS unary plus (ToNumber): +undefined is NaN, +null is 0, a string is read
\* as a numeric literal.
ToNumber(v) ==
  CASE v.t = "undef" -> JNaN
    [] v.t = "jnull" -> JNum(0)
    [] v.t = "num" -> v
    [] v.t = "inf" -> v
    [] v.t = "nan" -> JNaN
    [] v.t = "str" -> StringToNumber(v.s)
    [] OTHER -> JNaN

\* node-sqlite3 parameter binding: null and an unbound (undefined) parameter are
\* NULL, a whole number is an INTEGER, any other number a REAL (NaN is stored
\* as NULL), a string is TEXT.
Bind(v) ==
  CASE v.t = "num" -> SqlNumber(v.n, v.e)
    [] v.t = "inf" -> SqlInf(v.n)
    [] v.t = "str" -> SqlText(v.s)
    [] OTHER -> SqlNull

\* Column affinity INTEGER: a TEXT value that looks like a number is converted
\* (to INTEGER when whole, to REAL otherwise), any other value is stored as it
\* is.
IntegerAffinity(x) ==
  IF x.t = "text" /\ IsNumeric(x.s) THEN NumericValue(x.s) ELSE x

\* Column affinity TEXT: a numeric value is converted to its text.
TextAffinity(x) ==
  CASE x.t = "int" -> SqlText(ToString(x.n))
    [] x.t = "real" -> SqlText(RealText(x.n, x.e))
    [] x.t = "realinf" -> SqlText(IF x.n < 0 THEN "-Inf" ELSE "Inf")
    [] OTHER -> x

(***************************************************************************)
(* The store.  Each table is the sequence of its rows in rowid order;      *)
(* seq holds the AUTOINCREMENT counters (the largest id ever given).       *)
(***************************************************************************)
\* INSERT INTO party(id, threshold) VALUES (1, 20000)
PartySeed == [id |-> 1, threshold |-> SqlInt(20000)]

\* The columns of the tables ensureSchema creates in a new file (there is no
\* governorates table: its set of columns is empty).
EnsuredColumns ==
  [users |-> {"id", "email", "password_hash", "role", "created_at"},
   party |-> {"id", "threshold"},
   governorates |-> {},
   districts |-> {"id", "name"},
   candidates |-> {"id", "name", "district_id", "target"},
   assistants |-> {"id", "candidate_id", "name", "phone", "area_tags",
                   "created_at"},
   voters |-> {"id", "candidate_id", "assistant_id", "full_name", "dob",
               "district_id", "polling_center", "electoral_card", "created_at"}]

\* INSERT INTO users(email, password_hash, role) VALUES (?,?,?)
AdminSeed == [id |-> 1, email |-> "admin@local", role |-> "admin"]

\* The file sqlite3 creates when DB_FILE does not exist and there is no
\* database/votes.db to copy: no table, no view, no row.  A table without
\* columns is a table the file does not have.
NewFile ==
  [columns |-> [t \in DOMAIN EnsuredColumns |-> {}],
   views |-> {},
   users |-> <<>>,
   party |-> <<>>,
   governorates |-> <<>>,
   districts |-> <<>>,
   candidates |-> <<>>,
   assistants |-> <<>>,
   voters |-> <<>>,
   seq |-> [districts |-> 0, candidates |-> 0, voters |-> 0,
            assistants |-> 0, governorates |-> 0],
   now |-> 0]

\* The store ensureSchema leaves in a new file once it has finished: its
\* tables, no view, the party row and the admin user it seeds.
EmptyDb ==
  [columns |-> EnsuredColumns,
   views |-> {},
   users |-> <<AdminSeed>>,
   party |-> <<PartySeed>>,
   governorates |-> <<>>,
   districts |-> <<>>,
   candidates |-> <<>>,
   assistants |-> <<>>,
   voters |-> <<>>,
   seq |-> [districts |-> 0, candidates |-> 0, voters |-> 0,
            assistants |-> 0, governorates |-> 0],
   now |-> 0]

\* database/votes.db, the file app.js opens and server.js copies on first
\* boot.  The file is not in the sources; its schema is taken from the
\* statements of app.js: the tables and columns they name (no users table
\* among them), the governorates table, the three views they read, and the
\* party row.  ensureSchema finds these tables present and adds users.
DefaultDbFile ==
  [EmptyDb EXCEPT
     !.columns = [EnsuredColumns EXCEPT
                    !.users = {},
                    !.party = {"id", "name", "threshold", "start_date", "end_date"},
                    !.governorates = {"id", "name"},
                    !.districts = {"id", "governorate_id", "name",
                                   "official_voters"}],
     !.views = {"vw_candidate_progress", "vw_weekly_party", "vw_weekly_candidate"},
     !.users = <<>>,
     !.party = <<[id |-> 1, name |-> SqlNull, threshold |-> SqlInt(20000),
                  start_date |-> SqlNull, end_date |-> SqlNull]>>]

\* A statement that names columns cols of table is prepared on store d; when
\* it is not, SQLite reports "no such table" or "no such column" and the
\* statement does nothing.
HasColumns(d, table, cols) == cols # {} /\ cols \subseteq d.columns[table]

\* A statement that reads view v is prepared on store d.
HasView(d, v) == v \in d.views

Ids(rows) == {rows[i].id : i \in 1..Len(rows)}

\* The columns INSERT INTO voters names, which are the keys of a payload.
VoterFields ==
  {"candidate_id", "assistant_id", "full_name", "dob", "district_id",
   "polling_center", "electoral_card"}

\* The statement request c waits for (c.pc) can be prepared on store d: the
\* tables, columns and views it names are there.  When it cannot, it runs
\* nothing and its callback receives the error.
Prepared(d, c) ==
  CASE c.pc = "select" -> HasColumns(d, "voters", {"id", "electoral_card"})
    [] c.pc = "insert" -> HasColumns(d, "voters", VoterFields)
    [] c.pc = "selectOther" -> HasColumns(d, "voters", {"id", "electoral_card"})
    [] c.pc = "update" ->
         HasColumns(d, "voters",
                    {"id"} \cup {k \in VoterFields : c.body[1][k].t # "undef"})
    [] c.pc = "threshold" -> HasColumns(d, "party", {"id", "threshold"})
    [] c.pc = "count" -> HasColumns(d, "voters", {"id"})
    [] c.pc = "candidate" -> /\ HasColumns(d, "candidates", {"id", "district_id"})
                             /\ HasColumns(d, "districts", {"id", "name"})
    [] c.pc = "assistants" ->
         HasColumns(d, "assistants", {"candidate_id", "created_at"})
    [] c.pc = "byDistrict" ->
         /\ HasColumns(d, "districts", {"id", "name", "official_voters"})
         /\ HasColumns(d, "voters", {"id", "district_id", "candidate_id"})
    [] c.pc = "weekly" -> HasView(d, "vw_weekly_candidate")
    [] c.pc = "voters" ->
         HasColumns(d, "voters", {"id", "full_name", "dob", "electoral_card",
                                  "created_at", "candidate_id"})

(***************************************************************************)
(* ensureSchema (server.js).  It is called when the file is loaded and is  *)
(* not waited for: app.listen runs while its first statement is pending,   *)
(* and requests are served between its statements.  boot holds the         *)
(* statement ensureSchema waits for (pc: "done" once it has returned,      *)
(* "exit" after a statement was rejected, which ends the process) and the  *)
(* number of requests received so far while it runs (early).               *)
(***************************************************************************)
BootStart == [pc |-> "users", early |-> 0]

Booting(b) == b.pc \notin {"done", "exit"}

\* CREATE TABLE IF NOT EXISTS t (...)
CreateTable(d, t) ==
  IF d.columns[t] # {} THEN d ELSE [d EXCEPT !.columns[t] = EnsuredColumns[t]]

\* The row INSERT INTO party(id, threshold) VALUES (1, 20000) adds to the
\* party table of store d: NULL in every other column the table has.
PartySeedRow(d) ==
  IF HasColumns(d, "party", {"name", "start_date", "end_date"})
    THEN [id |-> 1, name |-> SqlNull, threshold |-> SqlInt(20000),
          start_date |-> SqlNull, end_date |-> SqlNull]
  ELSE PartySeed

\* The statement ensureSchema waits for has run on store d: the store it
\* leaves and the statement awaited next.  A rejected statement rejects
\* ensureSchema, whose catch calls process.exit(1).
AfterAwait(d, b) ==
  LET go(e, q) == [db |-> e, boot |-> [b EXCEPT !.pc = q]]
      exit == [db |-> d, boot |-> [b EXCEPT !.pc = "exit"]]
      done(e) == [db |-> e, boot |-> [pc |-> "done", early |-> 0]]
  IN CASE b.pc = "users" -> go(CreateTable(d, "users"), "party")
       [] b.pc = "party" -> go(CreateTable(d, "party"), "districts")
       [] b.pc = "districts" -> go(CreateTable(d, "districts"), "candidates")
       [] b.pc = "candidates" -> go(CreateTable(d, "candidates"), "assistants")
       [] b.pc = "assistants" -> go(CreateTable(d, "assistants"), "voters")
       [] b.pc = "voters" -> go(CreateTable(d, "voters"), "idx_voters_card")
       [] b.pc = "idx_voters_card" ->
            IF HasColumns(d, "voters", {"electoral_card"})
              THEN go(d, "idx_voters_name_dob")
            ELSE exit
       [] b.pc = "idx_voters_name_dob" ->
            IF HasColumns(d, "voters", {"full_name", "dob"})
              THEN go(d, "selectParty")
            ELSE exit
       [] b.pc = "selectParty" ->
            IF ~HasColumns(d, "party", {"id"}) THEN exit
            ELSE IF \E i \in 1..Len(d.party) : d.party[i].id = 1
              THEN go(d, "selectAdmin")
            ELSE go(d, "insertParty")
       [] b.pc = "insertParty" ->
            IF \/ ~HasColumns(d, "party", {"id", "threshold"})
               \/ \E i \in 1..Len(d.party) : d.party[i].id = 1
              THEN exit
            ELSE go([d EXCEPT !.party = Append(@, PartySeedRow(d))], "selectAdmin")
       [] b.pc = "selectAdmin" ->
            IF ~HasColumns(d, "users", {"id", "email"}) THEN exit
            ELSE IF \E i \in 1..Len(d.users) : d.users[i].email = AdminSeed.email
              THEN done(d)
            ELSE go(d, "hash")
       [] b.pc = "hash" -> go(d, "insertAdmin")
       [] b.pc = "insertAdmin" ->
            IF \/ ~HasColumns(d, "users", {"email", "password_hash", "role"})
               \/ \E i \in 1..Len(d.users) : d.users[i].email = AdminSeed.email
              THEN exit
            ELSE done([d EXCEPT !.users = Append(@, AdminSeed)])

\* ensureSchema is past the statements that seed the party row.
Seeded(b) == b.pc \in {"selectAdmin", "hash", "insertAdmin", "done"}

\* ensureSchema has created every table it creates and seeded the party row
\* in store d (or found them there).
Ensured(d) ==
  /\ \A t \in DOMAIN EnsuredColumns \ {"users"} :
       EnsuredColumns[t] \subseteq d.columns[t]
  /\ \E i \in 1..Len(d.party) : d.party[i].id = 1


(***************************************************************************)
(* Responses.  One shape for every handler; a handler fills the keys its   *)
(* JSON carries.  id = 0 stands for "no id key".                           *)
(***************************************************************************)
NoResp ==
  [op |-> "none", status |-> 0, ok |-> FALSE, duplicate |-> FALSE, id |-> 0,
   by |-> "", changes |-> 0, threshold |-> SqlNull, supporters |-> 0, rows |-> <<>>,
   candidate |-> <<>>, byDistrict |-> <<>>, weekly |-> <<>>,
   assistants |-> <<>>, voters |-> <<>>]

Json(op, status, ok) == [NoResp EXCEPT !.op = op, !.status = status, !.ok = ok]

\* res.status(400).json({ ok:false, msg })
BadRequest(op) == Json(op, 400, FALSE)

\* res.status(500).json({ ok:false, msg: e.message })
StoreError(op) == Json(op, 500, FALSE)

\* What a handler leaves behind: the store and the response it sent.
Outcome(d, r) == [db |-> d, resp |-> r]

\* The outcome o, marked with the file whose handler produced it.
By(file, o) == [o EXCEPT !.resp.by = file]

(***************************************************************************)
(* POST /api/voters                                                        *)
(***************************************************************************)
\* ValidVoter with the full_name test left out.
ValidVoterCandidateOnly(b) == Truthy(b.candidate_id)

\* if (!candidate_id || !full_name) return res.status(400)
ValidVoter(b) == Truthy(b.candidate_id) /\ Truthy(b.full_name)

\* SelectVoterByCard comparing the bound value as it is, without the column's
\* affinity: a card sent as a number never equals its stored text.
SelectVoterByCardNoAffinity(d, card) ==
  SelectSeq(d.voters, LAMBDA v : v.electoral_card.t # "null"
                                 /\ v.electoral_card = Bind(card))

\* SELECT id FROM voters WHERE electoral_card = ?   (the column has TEXT
\* affinity, which the comparison applies to the bound parameter)
SelectVoterByCard(d, card) ==
  SelectSeq(d.voters, LAMBDA v : v.electoral_card.t # "null"
                                 /\ v.electoral_card = TextAffinity(Bind(card)))

\* VoterRow with dob bound as it came, not as dob || null: an empty string is
\* stored as '' instead of NULL.
VoterRowKeepsEmptyDob(id, now, candidate_id, assistant_id, b) ==
  [id |-> id,
   candidate_id |-> IntegerAffinity(Bind(candidate_id)),
   assistant_id |-> IntegerAffinity(Bind(Or(assistant_id, JNull))),
   full_name |-> TextAffinity(Bind(b.full_name)),
   dob |-> TextAffinity(Bind(b.dob)),
   district_id |-> IntegerAffinity(Bind(Or(b.district_id, JNull))),
   polling_center |-> TextAffinity(Bind(Or(b.polling_center, JNull))),
   electoral_card |-> TextAffinity(Bind(Or(b.electoral_card, JNull))),
   created_at |-> now]

\* The row INSERT INTO voters(...) VALUES (?,?,?,?,?,?,?) stores for the values
\* the handler binds: each value || null, converted by its column's affinity.
VoterRow(id, now, candidate_id, assistant_id, b) ==
  [id |-> id,
   candidate_id |-> IntegerAffinity(Bind(candidate_id)),
   assistant_id |-> IntegerAffinity(Bind(Or(assistant_id, JNull))),
   full_name |-> TextAffinity(Bind(b.full_name)),
   dob |-> TextAffinity(Bind(Or(b.dob, JNull))),
   district_id |-> IntegerAffinity(Bind(Or(b.district_id, JNull))),
   polling_center |-> TextAffinity(Bind(Or(b.polling_center, JNull))),
   electoral_card |-> TextAffinity(Bind(Or(b.electoral_card, JNull))),
   created_at |-> now]

\* InsertVoter against a UNIQUE index on electoral_card with INSERT OR IGNORE:
\* a row whose card is held is not stored.
InsertVoterUnlessHeld(d, assistant_id, b) ==
  IF \E i \in 1..Len(d.voters) :
       /\ d.voters[i].electoral_card.t # "null"
       /\ d.voters[i].electoral_card
            = TextAffinity(Bind(Or(b.electoral_card, JNull)))
    THEN d
  ELSE [d EXCEPT !.voters = Append(@, VoterRow(d.seq.voters + 1, d.now,
                                               b.candidate_id, assistant_id, b)),
                 !.seq.voters = @ + 1]

\* The INSERT: one row appended with the next AUTOINCREMENT id.
InsertVoter(d, assistant_id, b) ==
  [d EXCEPT !.voters = Append(@, VoterRow(d.seq.voters + 1, d.now,
                                          b.candidate_id, assistant_id, b)),
            !.seq.voters = @ + 1]

\* AssistantOfApp with the test on assistant_id left out: aid wins.
AssistantOfAppAidFirst(b) == IF Truthy(b.aid) THEN ToNumber(b.aid) ELSE b.assistant_id

\* app.js: if (!assistant_id && aid) assistant_id = +aid;
AssistantOfApp(b) ==
  IF ~Truthy(b.assistant_id) /\ Truthy(b.aid) THEN ToNumber(b.aid)
  ELSE b.assistant_id

\* server.js destructures no aid: the assistant is assistant_id alone.
AssistantOfServer(b) == b.assistant_id

Created(d) == [Json("POST /api/voters", 200, TRUE) EXCEPT !.id = d.seq.voters]

Duplicate == [Json("POST /api/voters", 200, TRUE) EXCEPT !.duplicate = TRUE]

\* The handler, run from its first line to its response with no other
\* handler in between; assistant_id is the assistant the file resolves.
PostVoters(d, b, assistant_id) ==
  IF ~ValidVoter(b) THEN Outcome(d, BadRequest("POST /api/voters"))
  ELSE IF Truthy(b.electoral_card) /\ ~Prepared(d, [pc |-> "select"])
    THEN Outcome(d, StoreError("POST /api/voters"))
  ELSE IF Truthy(b.electoral_card)
          /\ SelectVoterByCard(d, b.electoral_card) # <<>>
    THEN Outcome(d, Duplicate)
  ELSE IF ~Prepared(d, [pc |-> "insert"])
    THEN Outcome(d, StoreError("POST /api/voters"))
  ELSE LET e == InsertVoter(d, assistant_id, b) IN Outcome(e, Created(e))

PostVotersApp(d, b) == By("app.js", PostVoters(d, b, AssistantOfApp(b)))

PostVotersServer(d, b) ==
  By("server.js", PostVoters(d, b, AssistantOfServer(b)))


(***************************************************************************)
(* PUT /api/voters/:id and DELETE /api/voters/:id  (server.js)             *)
(***************************************************************************)
Given(v) == v.t # "undef"

\* SelectOtherVoterByCard with id=? for id<>?.
SelectOtherVoterByCardSameId(d, card, id) ==
  SelectSeq(d.voters, LAMBDA v : v.electoral_card.t # "null"
                                 /\ v.electoral_card = TextAffinity(Bind(card))
                                 /\ v.id = id)

\* SelectOtherVoterByCard without id<>?.
SelectVoterByCardAnyId(d, card, id) ==
  SelectSeq(d.voters, LAMBDA v : v.electoral_card.t # "null"
                                 /\ v.electoral_card = TextAffinity(Bind(card)))

\* DeleteVoters that reports the rows matched and removes none.
DeleteVotersKeepsRows(d, id) ==
  By("server.js",
     IF ~HasColumns(d, "voters", {"id"})
       THEN Outcome(d, StoreError("DELETE /api/voters/:id"))
     ELSE
     Outcome(d, [Json("DELETE /api/voters/:id", 200, TRUE) EXCEPT
                   !.changes = Len(SelectSeq(d.voters, LAMBDA v : v.id = id))]))

\* SELECT id FROM voters WHERE electoral_card=? AND id<>?
SelectOtherVoterByCard(d, card, id) ==
  SelectSeq(d.voters, LAMBDA v : v.electoral_card.t # "null"
                                 /\ v.electoral_card = TextAffinity(Bind(card))
                                 /\ v.id # id)

\* set(col, val || null) for every key the payload holds, then
\* UPDATE voters SET ... WHERE id=?
UpdatedVoter(v, b) ==
  [id |-> v.id,
   candidate_id |-> IF Given(b.candidate_id)
                      THEN IntegerAffinity(Bind(Or(b.candidate_id, JNull)))
                      ELSE v.candidate_id,
   assistant_id |-> IF Given(b.assistant_id)
                      THEN IntegerAffinity(Bind(Or(b.assistant_id, JNull)))
                      ELSE v.assistant_id,
   full_name |-> IF Given(b.full_name)
                   THEN TextAffinity(Bind(Or(b.full_name, JNull)))
                   ELSE v.full_name,
   dob |-> IF Given(b.dob) THEN TextAffinity(Bind(Or(b.dob, JNull))) ELSE v.dob,
   district_id |-> IF Given(b.district_id)
                     THEN IntegerAffinity(Bind(Or(b.district_id, JNull)))
                     ELSE v.district_id,
   polling_center |-> IF Given(b.polling_center)
                        THEN TextAffinity(Bind(Or(b.polling_center, JNull)))
                        ELSE v.polling_center,
   electoral_card |-> IF Given(b.electoral_card)
                        THEN TextAffinity(Bind(Or(b.electoral_card, JNull)))
                        ELSE v.electoral_card,
   created_at |-> v.created_at]

NoFields(b) ==
  /\ ~Given(b.candidate_id) /\ ~Given(b.assistant_id) /\ ~Given(b.full_name)
  /\ ~Given(b.dob) /\ ~Given(b.district_id) /\ ~Given(b.polling_center)
  /\ ~Given(b.electoral_card)

\* candidate_id and full_name are NOT NULL columns: an UPDATE that sets one of
\* them to NULL on an existing row fails, and the catch block answers 500.
NotNullViolated(v) == v.candidate_id.t = "null" \/ v.full_name.t = "null"

Changes(op, n) == [Json(op, 200, TRUE) EXCEPT !.changes = n]

PutVoters(d, id, b) ==
  LET op == "PUT /api/voters/:id"
      hit == SelectSeq(d.voters, LAMBDA v : v.id = id)
  IN By("server.js",
     IF Given(b.electoral_card) /\ Truthy(b.electoral_card)
        /\ ~Prepared(d, [pc |-> "selectOther"])
       THEN Outcome(d, StoreError(op))
     ELSE IF Given(b.electoral_card) /\ Truthy(b.electoral_card)
        /\ SelectOtherVoterByCard(d, b.electoral_card, id) # <<>>
       THEN Outcome(d, BadRequest(op))
     ELSE IF NoFields(b) THEN Outcome(d, Changes(op, 0))
     ELSE IF ~Prepared(d, [pc |-> "update", body |-> <<b>>])
       THEN Outcome(d, StoreError(op))
     ELSE IF hit # <<>> /\ NotNullViolated(UpdatedVoter(hit[1], b))
       THEN Outcome(d, StoreError(op))
     ELSE Outcome(
            [d EXCEPT !.voters =
               [i \in 1..Len(@) |-> IF @[i].id = id THEN UpdatedVoter(@[i], b)
                                    ELSE @[i]]],
            Changes(op, Len(hit))))

\* DELETE FROM voters WHERE id=?
DeleteVoters(d, id) ==
  By("server.js",
     IF ~HasColumns(d, "voters", {"id"})
       THEN Outcome(d, StoreError("DELETE /api/voters/:id"))
     ELSE
     Outcome([d EXCEPT !.voters = SelectSeq(@, LAMBDA v : v.id # id)],
             Changes("DELETE /api/voters/:id",
                     Len(SelectSeq(d.voters, LAMBDA v : v.id = id)))))

(***************************************************************************)
(* GET /api/party-progress                                                 *)
(***************************************************************************)
\* SELECT threshold FROM party WHERE id=1
SelectPartyThreshold(d) == SelectSeq(d.party, LAMBDA p : p.id = 1)

\* CountVoters joined to candidates: voters of a deleted candidate are not
\* counted.
CountVotersOfCandidates(d) ==
  Len(SelectSeq(d.voters,
                LAMBDA v : \E i \in 1..Len(d.candidates) :
                             v.candidate_id = SqlInt(d.candidates[i].id)))

\* SELECT COUNT(*) AS supporters FROM voters
CountVoters(d) == Len(d.voters)

\* The two reads run on store d with no statement between them: 500 when
\* one of them cannot be prepared, else
\* threshold: row ? row.threshold : 0   (the JSON number 0 is shown as SqlInt(0))
PartyProgress(d) ==
  LET row == SelectPartyThreshold(d)
  IN IF ~Prepared(d, [pc |-> "threshold"]) \/ ~Prepared(d, [pc |-> "count"])
       THEN StoreError("GET /api/party-progress")
     ELSE [Json("GET /api/party-progress", 200, TRUE) EXCEPT
             !.threshold = IF row # <<>> THEN row[1].threshold ELSE SqlInt(0),
             !.supporters = CountVoters(d)]

GetPartyProgressApp(d) == By("app.js", Outcome(d, PartyProgress(d)))

GetPartyProgressServer(d) == By("server.js", Outcome(d, PartyProgress(d)))


(***************************************************************************)
(* GET /api/candidates                                                     *)
(***************************************************************************)
\* A ROUND(x, 1) result, held as its number of tenths (33.3 is Tenths(333)).
Tenths(k) == [t |-> "tenths", n |-> k, s |-> ""]

\* The number SQLite's arithmetic reads in a TEXT value: the longest prefix of
\* the text, leading white space skipped, that is a numeral; 0 without one.
RECURSIVE NumericPrefix(_, _)
NumericPrefix(s, j) ==
  IF j <= 0 THEN SqlInt(0)
  ELSE IF Numeral(SubSeq(s, 1, j)).ok
    THEN SqlNumber(Numeral(SubSeq(s, 1, j)).n, Numeral(SubSeq(s, 1, j)).e)
  ELSE NumericPrefix(s, j - 1)

\* The operand of the division 100.0*COUNT(v.id)/c.target.
Divisor(target) ==
  IF target.t = "text"
    THEN LET s == SubSeq(target.s, SkipAll(target.s, 1, SqliteSpace),
                         Len(target.s))
         IN NumericPrefix(s, Len(s))
  ELSE target

\* c.target>0: NULL>0 is NULL (the ELSE branch is taken); a TEXT value
\* compares greater than every number.
TargetPositive(target) ==
  \/ target.t = "text"
  \/ target.t \in {"int", "real"} /\ target.n > 0
  \/ target.t = "realinf" /\ target.n > 0

\* A REAL m / 10^e is held exactly by a double when 5^e divides m.
RECURSIVE Pow5(_)
Pow5(k) == IF k <= 0 THEN 1 ELSE 5 * Pow5(k - 1)

ExactDouble(x) == x.n % Pow5(x.e) = 0

\* floor(log2(j/5)) for j > 0.
RECURSIVE Log2Fifth(_)
Log2Fifth(j) ==
  IF j >= 10 THEN 1 + Log2Fifth(j \div 2)
  ELSE IF j >= 5 THEN 0
  ELSE Log2Fifth(2 * j) - 1

\* The double nearest to j/20 (j odd, not a multiple of 5) is above j/20:
\* with m = 52 - floor(log2(j/5)) the 53-bit significand is j*2^m/5 rounded to
\* the nearest integer, and the fraction cut off is ((j*2^m) mod 5)/5, where
\* 2^m mod 5 is 1, 2, 4, 3 for m mod 4 = 0, 1, 2, 3.
DoubleAbove(j) ==
  LET m == 52 - Log2Fifth(j)
      r == ((j % 5) * <<1, 2, 4, 3>>[(m % 4) + 1]) % 5
  IN r >= 3

\* ROUND(p/q, 1) for p >= 0, q > 0, in tenths.  ROUND rounds half away from
\* zero.  When p/q lies half way between two tenths, (2k+1)/20, the double
\* that holds the quotient is (2k+1)/20 itself when 5 divides 2k+1, and
\* otherwise lies to one side of it.  A double above the tie rounds up.  For a
\* double below the tie the SQLite build decides (3.40 adds a rounder to the
\* double and returns k+1, 3.53 rounds the double's own decimal expansion and
\* returns k): both are outcomes.  exact: q is held exactly by its double;
\* when it is not, the side of the tie the quotient falls on is left open.
RoundTenths(p, q, exact) ==
  LET k == (10 * p) \div q
      r == (10 * p) % q
  IN IF 2 * r < q THEN {k}
     ELSE IF 2 * r > q THEN {k + 1}
     ELSE IF exact /\ ((2 * k + 1) % 5 = 0 \/ DoubleAbove(2 * k + 1)) THEN {k + 1}
     ELSE {k, k + 1}

\* The quotient cut to one decimal place instead of rounded.
CutTenths(p, q, exact) == {(10 * p) \div q}

\* The rounding applied to the CASE expression of one group.
PctBy(Round(_, _, _), supporters, target) ==
  LET x == Divisor(target)
  IN IF ~TargetPositive(target) THEN {Tenths(0)}
     ELSE IF x.t = "realinf" THEN {Tenths(0)}
     ELSE IF x.n = 0 THEN {SqlNull}
     ELSE {Tenths((IF x.n < 0 THEN -1 ELSE 1) * k) :
             k \in Round(100 * supporters * Pow10(x.e), Abs(x.n), ExactDouble(x))}

\* Pct cut to one decimal place instead of rounded.
PctTruncated(supporters, target) == PctBy(CutTenths, supporters, target)

\* ROUND(CASE WHEN c.target>0 THEN (100.0*COUNT(v.id)/c.target) ELSE 0 END,1)
\* The set of values the expression can take.  A TEXT target divides as the
\* number its text begins with; SQLite's division by zero is NULL.
Pct(supporters, target) == PctBy(RoundTenths, supporters, target)

\* LEFT JOIN districts d ON d.id = c.district_id
DistrictsOf(d, c) == SelectSeq(d.districts, LAMBDA x : SqlInt(x.id) = c.district_id)

\* The voters join without its ON condition: every voter row joins every
\* candidate.
VotersOfCross(d, c) == d.voters

\* LEFT JOIN voters v ON v.candidate_id = c.id
VotersOf(d, c) == SelectSeq(d.voters, LAMBDA v : v.candidate_id = SqlInt(c.id))

\* Supporters as COUNT(*): the NULL-extended row of a candidate without voters
\* is counted.
SupportersCountStar(d, c) ==
  (IF DistrictsOf(d, c) = <<>> THEN 1 ELSE Len(DistrictsOf(d, c)))
    * (IF VotersOf(d, c) = <<>> THEN 1 ELSE Len(VotersOf(d, c)))

\* COUNT(v.id) over the joined rows of candidate c: every voter row of c once
\* per district row joined to c (one, or none and then the NULL-extended row).
Supporters(d, c) ==
  (IF DistrictsOf(d, c) = <<>> THEN 1 ELSE Len(DistrictsOf(d, c)))
    * Len(VotersOf(d, c))

\* One group of GROUP BY c.id, with the value pct its ROUND returned.
CandidateProgressRow(d, c, pct) ==
  [id |-> c.id,
   name |-> c.name,
   district |-> IF DistrictsOf(d, c) = <<>> THEN SqlNull
                ELSE DistrictsOf(d, c)[1].name,
   target |-> c.target,
   supporters |-> Supporters(d, c),
   pct |-> pct]

\* The values ROUND can return for each candidate row.
PctChoices(d) ==
  {f \in [1..Len(d.candidates) ->
            UNION {Pct(Supporters(d, d.candidates[i]), d.candidates[i].target) :
                     i \in 1..Len(d.candidates)}] :
     \A i \in 1..Len(d.candidates) :
       f[i] \in Pct(Supporters(d, d.candidates[i]), d.candidates[i].target)}

\* FROM candidates c ... GROUP BY c.id: one group per candidate row.  The set
\* of results the query can have, one for each choice of the pct values.
CandidateGroups(d) ==
  {{CandidateProgressRow(d, d.candidates[i], f[i]) : i \in 1..Len(d.candidates)} :
     f \in PctChoices(d)}

\* ORDER BY supporters DESC, c.id ASC
Before(a, b) ==
  a.supporters > b.supporters \/ (a.supporters = b.supporters /\ a.id < b.id)

RECURSIVE OrderBySupportersId(_)
OrderBySupportersId(S) ==
  IF S = {} THEN <<>>
  ELSE LET m == CHOOSE x \in S : \A y \in S \ {x} : Before(x, y)
       IN <<m>> \o OrderBySupportersId(S \ {m})

Rows(op, rows) == [Json(op, 200, TRUE) EXCEPT !.rows = rows]

\* server.js: the query with both sort keys.  The set of outcomes; 500 on a
\* store without one of the three tables.
GetCandidatesServer(d) ==
  IF \/ ~HasColumns(d, "candidates", {"id", "name", "district_id", "target"})
     \/ ~HasColumns(d, "districts", {"id", "name"})
     \/ ~HasColumns(d, "voters", {"id", "candidate_id"})
    THEN {By("server.js", Outcome(d, StoreError("GET /api/candidates")))}
  ELSE {By("server.js",
           Outcome(d, Rows("GET /api/candidates", OrderBySupportersId(G)))) :
          G \in CandidateGroups(d)}

\* The view app.js reads.  Its definition is in database/votes.db, not in the
\* sources: it is taken to hold the rows of the candidate progress list.
vw_candidate_progress(d) == CandidateGroups(d)

\* The key of the GROUP BY that produced row r: c.id for a row of the
\* candidate progress list, d.id for a row of a district distribution.  The
\* scan yields the groups by ascending key (the key is the table's rowid).
GroupKey(r) == IF "district_id" \in DOMAIN r THEN r.district_id ELSE r.id

\* SupportersThenScan with tied rows in descending key order.
SupportersThenReverse(a, b) ==
  \/ a.supporters > b.supporters
  \/ a.supporters = b.supporters /\ GroupKey(a) > GroupKey(b)

\* ORDER BY supporters DESC alone: SQLite's sort hands back rows of equal
\* supporters in the order the scan produced them.
SupportersThenScan(a, b) ==
  \/ a.supporters > b.supporters
  \/ a.supporters = b.supporters /\ GroupKey(a) < GroupKey(b)

RECURSIVE SortBySupporters(_)
SortBySupporters(S) ==
  IF S = {} THEN <<>>
  ELSE LET m == CHOOSE x \in S : \A y \in S \ {x} : SupportersThenScan(x, y)
       IN <<m>> \o SortBySupporters(S \ {m})

\* The result of ORDER BY supporters DESC on the rows S, as a set of one
\* sequence.
OrderBySupporters(S) == {SortBySupporters(S)}

\* app.js: SELECT * FROM vw_candidate_progress ORDER BY supporters DESC.
\* The set of outcomes (one for each choice of the pct values); 500 on a
\* store without the view.
GetCandidatesApp(d) ==
  IF ~HasView(d, "vw_candidate_progress")
    THEN {By("app.js", Outcome(d, StoreError("GET /api/candidates")))}
  ELSE {By("app.js", Outcome(d, Rows("GET /api/candidates", q))) :
          q \in UNION {OrderBySupporters(G) : G \in vw_candidate_progress(d)}}


(***************************************************************************)
(* District distribution: GET /api/party-districts and the byDistrict part *)
(* of GET /api/candidate/:id                                               *)
(***************************************************************************)
\* LEFT JOIN voters v ON v.district_id = d.id
VotersIn(d, x) == SelectSeq(d.voters, LAMBDA v : v.district_id = SqlInt(x.id))

\* VotersInOf without the candidate condition of the join.
VotersInOfAnyCandidate(d, x, id) == VotersIn(d, x)

\* LEFT JOIN voters v ON v.district_id = d.id AND v.candidate_id = ?
VotersInOf(d, x, id) ==
  SelectSeq(d.voters,
            LAMBDA v : v.district_id = SqlInt(x.id) /\ v.candidate_id = SqlInt(id))

\* SELECT d.id AS district_id, d.name AS district, d.official_voters,
\*        COUNT(v.id) AS supporters  ...  GROUP BY d.id
DistrictRow(x, joined) ==
  [district_id |-> x.id, district |-> x.name,
   official_voters |-> x.official_voters, supporters |-> Len(joined)]

PartyDistrictGroups(d) ==
  {DistrictRow(d.districts[i], VotersIn(d, d.districts[i])) :
     i \in 1..Len(d.districts)}

CandidateDistrictGroups(d, id) ==
  {DistrictRow(d.districts[i], VotersInOf(d, d.districts[i], id)) :
     i \in 1..Len(d.districts)}

\* TEXT values compare byte by byte (BINARY collation, memcmp on the UTF-8
\* bytes, a proper prefix first); the order of the bytes of UTF-8 is the order
\* of the code points.  The characters of the model's texts, by code point:
\* U+0001 to U+00FF without U+0060, then U+1680 and U+FEFF.
CodeOrder ==
  <<"", "", "", "", "", "", "", "", "\t", "\n", "", "\f", "\r",
    "", "", "", "", "", "", "", "", "", "", "", "", "", "",
    "", "", "", "", " ", "!", "\"", "#", "$", "%", "&", "'", "(", ")",
    "*", "+", ",", "-", ".", "/", "0", "1", "2", "3", "4", "5", "6", "7",
    "8", "9", ":", ";", "<", "=", ">", "?", "@", "A", "B", "C", "D", "E",
    "F", "G", "H", "I", "J", "K", "L", "M", "N", "O", "P", "Q", "R", "S",
    "T", "U", "V", "W", "X", "Y", "Z", "[", "\\", "]", "^", "_", "a", "b",
    "c", "d", "e", "f", "g", "h", "i", "j", "k", "l", "m", "n", "o", "p",
    "q", "r", "s", "t", "u", "v", "w", "x", "y", "z", "{", "|", "}", "~",
    "", "", "", "", "", "", "", "", "", "", "", "", "", "",
    "", "", "", "", "", "", "", "", "", "", "", "", "", "",
    "", "", "", "", "", " ", "¡", "¢", "£", "¤", "¥", "¦", "§", "¨",
    "©", "ª", "«", "¬", "­", "®", "¯", "°", "±", "²", "³", "´", "µ", "¶",
    "·", "¸", "¹", "º", "»", "¼", "½", "¾", "¿", "À", "Á", "Â", "Ã", "Ä",
    "Å", "Æ", "Ç", "È", "É", "Ê", "Ë", "Ì", "Í", "Î", "Ï", "Ð", "Ñ", "Ò",
    "Ó", "Ô", "Õ", "Ö", "×", "Ø", "Ù", "Ú", "Û", "Ü", "Ý", "Þ", "ß", "à",
    "á", "â", "ã", "ä", "å", "æ", "ç", "è", "é", "ê", "ë", "ì", "í", "î",
    "ï", "ð", "ñ", "ò", "ó", "ô", "õ", "ö", "÷", "ø", "ù", "ú", "û", "ü",
    "ý", "þ", "ÿ", " ", "﻿">>

CodeOf(ch) == CHOOSE i \in 1..Len(CodeOrder) : CodeOrder[i] = ch

\* x < y from character i on, the characters before i being equal.
RECURSIVE BinaryLess(_, _, _)
BinaryLess(x, y, i) ==
  IF i > Len(y) THEN FALSE
  ELSE IF i > Len(x) THEN TRUE
  ELSE IF SubSeq(x, i, i) = SubSeq(y, i, i) THEN BinaryLess(x, y, i + 1)
  ELSE CodeOf(SubSeq(x, i, i)) < CodeOf(SubSeq(y, i, i))

TextBefore(x, y) == x.s # y.s /\ BinaryLess(x.s, y.s, 1)

\* The order of ORDER BY on two values: NULL first, then the numbers by
\* value, then the texts byte by byte.
SqlLess(a, b) ==
  IF a.t = "null" THEN b.t # "null"
  ELSE IF b.t = "null" THEN FALSE
  ELSE IF a.t = "text" THEN b.t = "text" /\ TextBefore(a, b)
  ELSE IF b.t = "text" THEN TRUE
  ELSE IF a.t = "realinf" THEN a.n < 0 /\ ~(b.t = "realinf" /\ b.n < 0)
  ELSE IF b.t = "realinf" THEN b.n > 0
  ELSE a.n * Pow10(b.e) < b.n * Pow10(a.e)

\* ORDER BY supporters DESC, official_voters DESC: every arrangement of the
\* rows that agrees with both keys.
OrderBySupportersOfficial(S) ==
  {q \in [1..Cardinality(S) -> S] :
     /\ \A i, j \in 1..Cardinality(S) : i # j => q[i] # q[j]
     /\ \A i, j \in 1..Cardinality(S) :
          i < j => /\ q[i].supporters >= q[j].supporters
                   /\ q[i].supporters = q[j].supporters
                        => ~SqlLess(q[i].official_voters, q[j].official_voters)}

\* app.js GET /api/party-districts: the set of outcomes the query allows; 500
\* on a store whose districts have no official_voters.
GetPartyDistricts(d) ==
  IF \/ ~HasColumns(d, "districts", {"id", "name", "official_voters"})
     \/ ~HasColumns(d, "voters", {"id", "district_id"})
    THEN {By("app.js", Outcome(d, StoreError("GET /api/party-districts")))}
  ELSE {By("app.js", Outcome(d, Rows("GET /api/party-districts", q))) :
          q \in OrderBySupportersOfficial(PartyDistrictGroups(d))}

(***************************************************************************)
(* Weekly growth: GET /api/party-weekly and the weekly part of             *)
(* GET /api/candidate/:id.  The views vw_weekly_party and                  *)
(* vw_weekly_candidate are in database/votes.db, not in the sources; they  *)
(* are taken to count the voters per week of created_at.  created_at is    *)
(* held as a day number.                                                   *)
(***************************************************************************)
DaysPerWeek == 7

Yweek(created_at) == created_at \div DaysPerWeek

vw_weekly_party(d) ==
  {[yweek |-> w,
    supporters |-> Len(SelectSeq(d.voters, LAMBDA v : Yweek(v.created_at) = w))] :
     w \in {Yweek(d.voters[i].created_at) : i \in 1..Len(d.voters)}}

vw_weekly_candidate(d) ==
  {[candidate_id |-> c, yweek |-> w,
    supporters |-> Len(SelectSeq(d.voters,
                                 LAMBDA v : v.candidate_id = c
                                              /\ Yweek(v.created_at) = w))] :
     <<c, w>> \in {<<d.voters[i].candidate_id, Yweek(d.voters[i].created_at)>> :
                     i \in 1..Len(d.voters)}}

\* SELECT yweek, supporters FROM ...
YweekSupporters(S) == {[yweek |-> r.yweek, supporters |-> r.supporters] : r \in S}

\* OrderByYweek with the largest yweek first.
OrderByYweekDesc(S) ==
  {q \in [1..Cardinality(S) -> S] :
     /\ \A i, j \in 1..Cardinality(S) : i # j => q[i] # q[j]
     /\ \A i, j \in 1..Cardinality(S) : i < j => q[i].yweek >= q[j].yweek}

\* ORDER BY yweek: every arrangement of the rows in which yweek never
\* decreases.
OrderByYweek(S) ==
  {q \in [1..Cardinality(S) -> S] :
     /\ \A i, j \in 1..Cardinality(S) : i # j => q[i] # q[j]
     /\ \A i, j \in 1..Cardinality(S) : i < j => q[i].yweek <= q[j].yweek}

\* app.js GET /api/party-weekly:
\* SELECT yweek, supporters FROM vw_weekly_party ORDER BY yweek
GetPartyWeekly(d) ==
  IF ~HasView(d, "vw_weekly_party")
    THEN {By("app.js", Outcome(d, StoreError("GET /api/party-weekly")))}
  ELSE {By("app.js", Outcome(d, Rows("GET /api/party-weekly", q))) :
          q \in OrderByYweek(YweekSupporters(vw_weekly_party(d)))}

\* WHERE candidate_id = ? of the weekly query.
WeeklyOf(d, id) == {r \in vw_weekly_candidate(d) : r.candidate_id = SqlInt(id)}

(***************************************************************************)
(* GET /api/candidate/:id.  The answer carries candidate, assistants,      *)
(* byDistrict, weekly and voters.                                          *)
(***************************************************************************)
NotFound(op) == Json(op, 404, FALSE)

\* SELECT c.*, d.name AS district_name FROM candidates c
\* LEFT JOIN districts d ON d.id = c.district_id WHERE c.id = ?
SelectCandidate(d, id) ==
  LET hit == SelectSeq(d.candidates, LAMBDA c : c.id = id)
  IN [i \in 1..Len(hit) |->
        [id |-> hit[i].id, name |-> hit[i].name,
         district_id |-> hit[i].district_id, target |-> hit[i].target,
         district_name |-> IF DistrictsOf(d, hit[i]) = <<>> THEN SqlNull
                           ELSE DistrictsOf(d, hit[i])[1].name]]

(***************************************************************************)
(* GET /api/fuzzy-duplicates                                               *)
(***************************************************************************)
\* WHERE v1.full_name <> '' AND v1.dob IS NOT NULL
NamedAndDated(d) ==
  SelectSeq(d.voters,
            LAMBDA v : /\ v.full_name.t # "null" /\ v.full_name # SqlText("")
                       /\ v.dob.t # "null")

\* The rows of one group of GROUP BY v1.full_name, v1.dob, in rowid order.
SameNameAndDob(d, name, dob) ==
  SelectSeq(NamedAndDated(d), LAMBDA v : v.full_name = name /\ v.dob = dob)

\* GROUP_CONCAT(v1.candidate_id): the candidate_id of every row of the group,
\* one entry per row.
GroupConcat(rows) == [i \in 1..Len(rows) |-> rows[i].candidate_id]

\* SELECT v1.full_name, v1.dob, COUNT(*) AS cnt, GROUP_CONCAT(...) per group
FuzzyRow(d, name, dob) ==
  [full_name |-> name, dob |-> dob,
   cnt |-> Len(SameNameAndDob(d, name, dob)),
   candidate_ids |-> GroupConcat(SameNameAndDob(d, name, dob))]

\* GROUP BY v1.full_name, v1.dob: one row per pair held by a listed voter.
FuzzyGroupsAll(d) ==
  {FuzzyRow(d, NamedAndDated(d)[i].full_name, NamedAndDated(d)[i].dob) :
     i \in 1..Len(NamedAndDated(d))}

\* FuzzyGroups without the HAVING clause: single voters are listed too.
FuzzyGroupsUnfiltered(d) == FuzzyGroupsAll(d)

\* GROUP BY v1.full_name, v1.dob HAVING COUNT(*) > 1
FuzzyGroups(d) == {g \in FuzzyGroupsAll(d) : g.cnt > 1}

\* ORDER BY cnt DESC, full_name: every arrangement of the rows that agrees
\* with both keys; rows equal in both are in an order SQL leaves open.
OrderByCntName(S) ==
  {q \in [1..Cardinality(S) -> S] :
     /\ \A i, j \in 1..Cardinality(S) : i # j => q[i] # q[j]
     /\ \A i, j \in 1..Cardinality(S) :
          i < j => /\ q[i].cnt >= q[j].cnt
                   /\ q[i].cnt = q[j].cnt => ~TextBefore(q[j].full_name, q[i].full_name)}

\* app.js GET /api/fuzzy-duplicates: the set of outcomes the query allows;
\* 500 on a store without the voters table.
GetFuzzyDuplicates(d) ==
  IF ~HasColumns(d, "voters", {"full_name", "dob", "candidate_id"})
    THEN {By("app.js", Outcome(d, StoreError("GET /api/fuzzy-duplicates")))}
  ELSE {By("app.js", Outcome(d, Rows("GET /api/fuzzy-duplicates", q))) :
          q \in OrderByCntName(FuzzyGroups(d))}


(***************************************************************************)
(* Admin mutations                                                         *)
(***************************************************************************)
Id(op, id) == [Json(op, 200, TRUE) EXCEPT !.id = id]

\* app.js POST /api/candidates:
\* INSERT INTO candidates(name, district_id, target) VALUES (?,?,?)
\* with [name, district_id || null, +target || 0]
PostCandidates(d, b) ==
  LET op == "POST /api/candidates"
  IN By("app.js",
     IF ~Truthy(b.name) THEN Outcome(d, BadRequest(op))
     ELSE IF ~HasColumns(d, "candidates", {"name", "district_id", "target"})
       THEN Outcome(d, StoreError(op))
     ELSE Outcome(
            [d EXCEPT
               !.candidates = Append(@,
                 [id |-> d.seq.candidates + 1,
                  name |-> TextAffinity(Bind(b.name)),
                  district_id |-> IntegerAffinity(Bind(Or(b.district_id, JNull))),
                  target |-> IntegerAffinity(Bind(Or(ToNumber(b.target), JNum(0))))]),
               !.seq.candidates = @ + 1],
            Id(op, d.seq.candidates + 1)))

\* app.js PUT /api/candidates/:id:
\* UPDATE candidates SET name = ?, district_id = ?, target = ? WHERE id = ?
\* name is bound as it came: absent, it is NULL, which the NOT NULL column
\* refuses on an existing row (500).
PutCandidates(d, id, b) ==
  LET op == "PUT /api/candidates/:id"
      hit == SelectSeq(d.candidates, LAMBDA c : c.id = id)
  IN By("app.js",
     IF ~HasColumns(d, "candidates", {"id", "name", "district_id", "target"})
       THEN Outcome(d, StoreError(op))
     ELSE IF hit # <<>> /\ Bind(b.name).t = "null" THEN Outcome(d, StoreError(op))
     ELSE Outcome(
            [d EXCEPT !.candidates =
               [i \in 1..Len(@) |->
                  IF @[i].id = id
                    THEN [id |-> id,
                          name |-> TextAffinity(Bind(b.name)),
                          district_id |->
                            IntegerAffinity(Bind(Or(b.district_id, JNull))),
                          target |->
                            IntegerAffinity(Bind(Or(ToNumber(b.target), JNum(0))))]
                    ELSE @[i]]],
            Changes(op, Len(hit))))

\* DeleteCandidates with ON DELETE CASCADE on voters.candidate_id: the
\* candidate's voters go with it.
DeleteCandidatesCascade(d, id) ==
  By("app.js",
     IF ~HasColumns(d, "candidates", {"id"})
       THEN Outcome(d, StoreError("DELETE /api/candidates/:id"))
     ELSE
     Outcome([d EXCEPT !.candidates = SelectSeq(@, LAMBDA c : c.id # id),
                       !.voters = SelectSeq(@, LAMBDA v : v.candidate_id # SqlInt(id))],
             Changes("DELETE /api/candidates/:id",
                     Len(SelectSeq(d.candidates, LAMBDA c : c.id = id)))))

\* app.js DELETE /api/candidates/:id: DELETE FROM candidates WHERE id = ?
DeleteCandidates(d, id) ==
  By("app.js",
     IF ~HasColumns(d, "candidates", {"id"})
       THEN Outcome(d, StoreError("DELETE /api/candidates/:id"))
     ELSE
     Outcome([d EXCEPT !.candidates = SelectSeq(@, LAMBDA c : c.id # id)],
             Changes("DELETE /api/candidates/:id",
                     Len(SelectSeq(d.candidates, LAMBDA c : c.id = id)))))

\* app.js POST /api/districts:
\* INSERT INTO districts(governorate_id, name, official_voters) VALUES (?,?,?)
\* with [governorate_id || null, name, +official_voters || 0]
PostDistricts(d, b) ==
  LET op == "POST /api/districts"
  IN By("app.js",
     IF ~Truthy(b.name) THEN Outcome(d, BadRequest(op))
     ELSE IF ~HasColumns(d, "districts", {"governorate_id", "name", "official_voters"})
       THEN Outcome(d, StoreError(op))
     ELSE Outcome(
            [d EXCEPT
               !.districts = Append(@,
                 [id |-> d.seq.districts + 1,
                  governorate_id |->
                    IntegerAffinity(Bind(Or(b.governorate_id, JNull))),
                  name |-> TextAffinity(Bind(b.name)),
                  official_voters |->
                    IntegerAffinity(Bind(Or(ToNumber(b.official_voters), JNum(0))))]),
               !.seq.districts = @ + 1],
            Id(op, d.seq.districts + 1)))

\* app.js PUT /api/districts/:id:
\* UPDATE districts SET governorate_id = ?, name = ?, official_voters = ?
\* WHERE id = ?  with [governorate_id || null, name, +official_voters || 0].
\* name is bound as it came: absent, it is NULL, which the NOT NULL column
\* refuses on an existing row (500).
PutDistricts(d, id, b) ==
  LET op == "PUT /api/districts/:id"
      hit == SelectSeq(d.districts, LAMBDA x : x.id = id)
  IN By("app.js",
     IF ~HasColumns(d, "districts",
                    {"id", "governorate_id", "name", "official_voters"})
       THEN Outcome(d, StoreError(op))
     ELSE IF hit # <<>> /\ Bind(b.name).t = "null" THEN Outcome(d, StoreError(op))
     ELSE Outcome(
            [d EXCEPT !.districts =
               [i \in 1..Len(@) |->
                  IF @[i].id = id
                    THEN [id |-> id,
                          governorate_id |->
                            IntegerAffinity(Bind(Or(b.governorate_id, JNull))),
                          name |-> TextAffinity(Bind(b.name)),
                          official_voters |->
                            IntegerAffinity(Bind(Or(ToNumber(b.official_voters),
                                                    JNum(0))))]
                    ELSE @[i]]],
            Changes(op, Len(hit))))

\* DeleteDistricts with the foreign key of candidates.district_id enforced:
\* a referenced district is not deleted (500).
DeleteDistrictsRestricted(d, id) ==
  By("app.js",
     IF ~HasColumns(d, "districts", {"id"})
       THEN Outcome(d, StoreError("DELETE /api/districts/:id"))
     ELSE IF \E i \in 1..Len(d.candidates) : d.candidates[i].district_id = SqlInt(id)
       THEN Outcome(d, StoreError("DELETE /api/districts/:id"))
     ELSE Outcome([d EXCEPT !.districts = SelectSeq(@, LAMBDA x : x.id # id)],
                  Changes("DELETE /api/districts/:id",
                          Len(SelectSeq(d.districts, LAMBDA x : x.id = id)))))

\* app.js DELETE /api/districts/:id: DELETE FROM districts WHERE id = ?
\* No PRAGMA foreign_keys is issued, so SQLite does not enforce the
\* REFERENCES clauses.
DeleteDistricts(d, id) ==
  By("app.js",
     IF ~HasColumns(d, "districts", {"id"})
       THEN Outcome(d, StoreError("DELETE /api/districts/:id"))
     ELSE
     Outcome([d EXCEPT !.districts = SelectSeq(@, LAMBDA x : x.id # id)],
             Changes("DELETE /api/districts/:id",
                     Len(SelectSeq(d.districts, LAMBDA x : x.id = id)))))

\* app.js POST /api/governorates: INSERT INTO governorates(name) VALUES (?)
PostGovernorates(d, b) ==
  LET op == "POST /api/governorates"
  IN By("app.js",
     IF ~Truthy(b.name) THEN Outcome(d, BadRequest(op))
     ELSE IF ~HasColumns(d, "governorates", {"name"}) THEN Outcome(d, StoreError(op))
     ELSE Outcome(
            [d EXCEPT
               !.governorates = Append(@, [id |-> d.seq.governorates + 1,
                                           name |-> TextAffinity(Bind(b.name))]),
               !.seq.governorates = @ + 1],
            Id(op, d.seq.governorates + 1)))

\* app.js DELETE /api/governorates/:id: DELETE FROM governorates WHERE id = ?
DeleteGovernorates(d, id) ==
  By("app.js",
     IF ~HasColumns(d, "governorates", {"id"})
       THEN Outcome(d, StoreError("DELETE /api/governorates/:id"))
     ELSE
     Outcome([d EXCEPT !.governorates = SelectSeq(@, LAMBDA g : g.id # id)],
             Changes("DELETE /api/governorates/:id",
                     Len(SelectSeq(d.governorates, LAMBDA g : g.id = id)))))

\* app.js POST /api/assistants:
\* INSERT INTO assistants(candidate_id, name, phone, area_tags) VALUES (?,?,?,?)
\* with [candidate_id, name, phone || '', area_tags || '']
PostAssistants(d, b) ==
  LET op == "POST /api/assistants"
  IN By("app.js",
     IF ~Truthy(b.candidate_id) \/ ~Truthy(b.name) THEN Outcome(d, BadRequest(op))
     ELSE IF ~HasColumns(d, "assistants",
                         {"candidate_id", "name", "phone", "area_tags"})
       THEN Outcome(d, StoreError(op))
     ELSE Outcome(
            [d EXCEPT
               !.assistants = Append(@,
                 [id |-> d.seq.assistants + 1,
                  candidate_id |-> IntegerAffinity(Bind(b.candidate_id)),
                  name |-> TextAffinity(Bind(b.name)),
                  phone |-> TextAffinity(Bind(Or(b.phone, JStr("")))),
                  area_tags |-> TextAffinity(Bind(Or(b.area_tags, JStr("")))),
                  created_at |-> d.now]),
               !.seq.assistants = @ + 1],
            Id(op, d.seq.assistants + 1)))

\* server.js POST /api/assistants: the same test of candidate_id and name and
\* the same INSERT with the same values, awaited; a failure is caught and
\* answered 500.
PostAssistantsServer(d, b) == By("server.js", PostAssistants(d, b))

PostAssistantsOf(f, d, b) ==
  IF f = "app.js" THEN PostAssistants(d, b) ELSE PostAssistantsServer(d, b)

\* The row PUT /api/party writes:
\* [name || '', +threshold || 0, start_date || null, end_date || null]
PartyRow(b) ==
  [id |-> 1,
   name |-> TextAffinity(Bind(Or(b.name, JStr("")))),
   threshold |-> IntegerAffinity(Bind(Or(ToNumber(b.threshold), JNum(0)))),
   start_date |-> TextAffinity(Bind(Or(b.start_date, JNull))),
   end_date |-> TextAffinity(Bind(Or(b.end_date, JNull)))]

\* PutParty as a plain INSERT that adds a row per call.
PutPartyInsert(d, b) ==
  By("app.js",
     IF ~HasColumns(d, "party", {"id", "name", "threshold", "start_date", "end_date"})
       THEN Outcome(d, StoreError("PUT /api/party"))
     ELSE
     Outcome([d EXCEPT !.party = Append(@, PartyRow(b))],
             Json("PUT /api/party", 200, TRUE)))

\* app.js PUT /api/party:
\* INSERT INTO party(id, ...) VALUES (1, ...) ON CONFLICT(id) DO UPDATE SET ...
\* 500 on a store whose party table lacks one of the columns.
PutParty(d, b) ==
  By("app.js",
     IF ~HasColumns(d, "party", {"id", "name", "threshold", "start_date", "end_date"})
       THEN Outcome(d, StoreError("PUT /api/party"))
     ELSE
     Outcome(
       [d EXCEPT !.party =
          IF SelectSeq(@, LAMBDA p : p.id = 1) = <<>> THEN Append(@, PartyRow(b))
          ELSE [i \in 1..Len(@) |-> IF @[i].id = 1 THEN PartyRow(b) ELSE @[i]]],
       Json("PUT /api/party", 200, TRUE)))

\* parseInt(x, 10): the text of x, leading StrWhiteSpace skipped, then a sign
\* and the longest run of digits; NaN when there is no digit.
ParseInt(v) ==
  LET s == CASE v.t = "str" -> v.s
             [] v.t = "undef" -> "undefined"
             [] v.t = "jnull" -> "null"
             [] OTHER -> NumberText(v)
      i0 == SkipAll(s, 1, StrWhiteSpace)
      i1 == IF Char(s, i0) \in {"-", "+"} THEN i0 + 1 ELSE i0
      i2 == SkipAll(s, i1, DigitChars)
  IN IF i2 > i1
       THEN JNum((IF Char(s, i0) = "-" THEN -1 ELSE 1) * NatOf(s, i1, i2 - 1, 10))
     ELSE JNaN

\* server.js POST /api/party-progress:
\* th = Math.max(0, parseInt(req.body?.threshold || 0, 10) || 0);
\* UPDATE party SET threshold=? WHERE id=1
PostPartyProgress(d, b) ==
  LET p == Or(ParseInt(Or(b.threshold, JNum(0))), JNum(0))
      th == IF p.n > 0 THEN p.n ELSE 0
  IN By("server.js",
     IF ~HasColumns(d, "party", {"id", "threshold"})
       THEN Outcome(d, StoreError("POST /api/party-progress"))
     ELSE
     Outcome(
       [d EXCEPT !.party =
          [i \in 1..Len(@) |-> IF @[i].id = 1
                                 THEN [@[i] EXCEPT !.threshold = SqlInt(th)]
                                 ELSE @[i]]],
       Json("POST /api/party-progress", 200, TRUE)))


(***************************************************************************)
(* POST /api/voters as the steps the event loop interleaves: the handler's *)
(* synchronous part, the SELECT and its callback, the INSERT and its       *)
(* callback.  Each statement runs atomically; other handlers' statements   *)
(* may run between them.                                                   *)
(***************************************************************************)
IdleCall == [pc |-> "idle", file |-> "", assistant_id |-> Undef,
             body |-> <<>>, resp |-> NoResp]

\* The synchronous part: destructuring, validation, and the statement issued.
BeginPostVoters(file, b) ==
  LET c == [IdleCall EXCEPT !.file = file, !.body = <<b>>,
                            !.assistant_id = IF file = "app.js"
                                               THEN AssistantOfApp(b)
                                               ELSE AssistantOfServer(b)]
  IN IF ~ValidVoter(b)
       THEN [c EXCEPT !.pc = "done",
                      !.resp = By(file, Outcome(<<>>, BadRequest("POST /api/voters"))).resp]
     ELSE IF Truthy(b.electoral_card) THEN [c EXCEPT !.pc = "select"]
     ELSE [c EXCEPT !.pc = "insert"]

\* The callback of a statement that could not be prepared answers 500.
AfterError(c) ==
  [c EXCEPT !.pc = "done",
            !.resp = By(c.file, Outcome(<<>>, StoreError("POST /api/voters"))).resp]

\* The SELECT ran against store d; its callback answers or issues the INSERT.
AfterSelect(d, c) ==
  IF ~Prepared(d, c) THEN AfterError(c)
  ELSE IF SelectVoterByCard(d, c.body[1].electoral_card) # <<>>
    THEN [c EXCEPT !.pc = "done", !.resp = By(c.file, Outcome(<<>>, Duplicate)).resp]
  ELSE [c EXCEPT !.pc = "insert"]

\* The INSERT ran and left store e; its callback answers with lastID.
AfterInsert(e, c) ==
  [c EXCEPT !.pc = "done", !.resp = By(c.file, Outcome(<<>>, Created(e))).resp]

(***************************************************************************)
(* POST /api/voters with a store that may fail.  A request keeps the       *)
(* responses written to it (sent) and the statements issued for it (log,   *)
(* with "failed" after a statement whose callback received an error).      *)
(* server.js awaits each statement inside try/catch, app.js passes         *)
(* callbacks: both issue the same statements and answer in the same places.*)
(***************************************************************************)
IdleRequest == [pc |-> "idle", file |-> "", assistant_id |-> Undef,
                body |-> <<>>, sent |-> <<>>, log |-> <<>>]

\* res.json(...) or res.status(...).json(...)
Send(c, r) == [c EXCEPT !.sent = Append(@, [r EXCEPT !.by = c.file])]

\* db.get / db.run is called: the statement is queued and the handler waits
\* for its callback.
Issue(c, q) == [c EXCEPT !.pc = q, !.log = Append(@, q)]

\* The callback received an error (server.js: the promise rejected).
Failed(c) == [c EXCEPT !.log = Append(@, "failed")]

\* return: nothing of the handler runs after it.
Return(c) == [c EXCEPT !.pc = "done"]

\* The synchronous part of the handler.
BeginSubmitVoter(file, b) ==
  LET c == [IdleRequest EXCEPT !.file = file, !.body = <<b>>,
                               !.assistant_id = IF file = "app.js"
                                                  THEN AssistantOfApp(b)
                                                  ELSE AssistantOfServer(b)]
  IN IF ~ValidVoter(b) THEN Return(Send(c, BadRequest("POST /api/voters")))
     ELSE IF Truthy(b.electoral_card) THEN Issue(c, "select")
     ELSE Issue(c, "insert")

\* The callback of the SELECT, which ran against store d unless err.
OnSelect(d, c, err) ==
  IF err THEN Return(Send(Failed(c), StoreError("POST /api/voters")))
  ELSE IF SelectVoterByCard(d, c.body[1].electoral_card) # <<>>
    THEN Return(Send(c, Duplicate))
  ELSE Issue(c, "insert")

\* OnInsert whose error branch answers 500 without returning.
OnInsertFallsThrough(e, c, err) ==
  Return(Send(IF err THEN Send(Failed(c), StoreError("POST /api/voters"))
              ELSE c,
              Created(e)))

\* The callback of the INSERT, which left store e unless err.
OnInsert(e, c, err) ==
  IF err THEN Return(Send(Failed(c), StoreError("POST /api/voters")))
  ELSE Return(Send(c, Created(e)))


(***************************************************************************)
(* GET /api/candidate/:id as the statements it issues one after another,   *)
(* each against the store as it is when the statement runs, each either    *)
(* succeeding or failing.  app.js reads candidate, assistants, byDistrict, *)
(* weekly and voters; server.js reads candidate, assistants and voters.    *)
(* A request keeps the parts read so far and, for each, the number of      *)
(* voter rows inserted when it was read (at).                              *)
(***************************************************************************)
Parts == {"candidate", "assistants", "byDistrict", "weekly", "voters"}

IdleView == [pc |-> "idle", file |-> "", id |-> 0,
             parts |-> [q \in Parts |-> <<>>], at |-> [q \in Parts |-> 0],
             sent |-> <<>>, log |-> <<>>]

Reads(file) ==
  IF file = "app.js"
    THEN <<"candidate", "assistants", "byDistrict", "weekly", "voters">>
  ELSE <<"candidate", "assistants", "voters">>

\* ORDER BY created_at DESC: every arrangement of rows in which created_at
\* never increases.
OrderByCreatedAtDesc(rows) ==
  {[i \in 1..Len(rows) |-> rows[p[i]]] :
     p \in {f \in [1..Len(rows) -> 1..Len(rows)] :
              /\ \A i, j \in 1..Len(rows) : i # j => f[i] # f[j]
              /\ \A i, j \in 1..Len(rows) :
                   i < j => rows[f[i]].created_at >= rows[f[j]].created_at}}

\* LIMIT n
Limit(q, n) == SubSeq(q, 1, IF Len(q) < n THEN Len(q) ELSE n)

\* SELECT * FROM assistants WHERE candidate_id = ? ORDER BY created_at DESC
SelectAssistants(d, id) ==
  OrderByCreatedAtDesc(SelectSeq(d.assistants,
                                 LAMBDA a : a.candidate_id = SqlInt(id)))

\* app.js: SELECT full_name, dob, electoral_card, created_at FROM voters
\*         WHERE candidate_id = ? ORDER BY created_at DESC LIMIT 500
\* server.js: the same with id and LIMIT 300
SelectRecentVoters(d, id, file) ==
  {Limit([i \in 1..Len(q) |->
            [id |-> IF file = "app.js" THEN 0 ELSE q[i].id,
             full_name |-> q[i].full_name, dob |-> q[i].dob,
             electoral_card |-> q[i].electoral_card,
             created_at |-> q[i].created_at]],
         IF file = "app.js" THEN RecentVotersLimitApp
         ELSE RecentVotersLimitServer) :
     q \in OrderByCreatedAtDesc(VotersOf(d, [id |-> id]))}

\* app.js GET /api/candidate/:id with its five reads run on store d, no other
\* statement in between.  The set of outcomes the queries allow: 404 when the
\* candidate read fails or finds no row (if (e || !cand)); 500 when a later
\* read is not prepared on the store; byDistrict is ORDER BY supporters DESC
\* alone.
GetCandidate(d, id) ==
  LET op == "GET /api/candidate/:id"
  IN IF ~Prepared(d, [pc |-> "candidate"]) \/ SelectCandidate(d, id) = <<>>
       THEN {By("app.js", Outcome(d, NotFound(op)))}
     ELSE IF \E p \in {"assistants", "byDistrict", "weekly", "voters"} :
               ~Prepared(d, [pc |-> p])
       THEN {By("app.js", Outcome(d, StoreError(op)))}
     ELSE {By("app.js",
              Outcome(d, [Json(op, 200, TRUE) EXCEPT
                            !.candidate = SelectCandidate(d, id),
                            !.assistants = a,
                            !.byDistrict = q,
                            !.weekly = w,
                            !.voters = v])) :
             a \in SelectAssistants(d, id),
             q \in OrderBySupporters(CandidateDistrictGroups(d, id)),
             w \in OrderByYweek(YweekSupporters(WeeklyOf(d, id))),
             v \in SelectRecentVoters(d, id, "app.js")}

\* The results the statement request c waits for may return from store d.
ReadResults(d, c) ==
  CASE c.pc = "candidate" -> {SelectCandidate(d, c.id)}
    [] c.pc = "assistants" -> SelectAssistants(d, c.id)
    [] c.pc = "byDistrict" -> OrderBySupporters(CandidateDistrictGroups(d, c.id))
    [] c.pc = "weekly" -> OrderByYweek(YweekSupporters(WeeklyOf(d, c.id)))
    [] c.pc = "voters" -> SelectRecentVoters(d, c.id, c.file)

\* res.json({ ok:true, candidate: cand, assistants, byDistrict, weekly, voters })
FullView(c) ==
  [Json("GET /api/candidate/:id", 200, TRUE) EXCEPT
     !.candidate = c.parts.candidate, !.assistants = c.parts.assistants,
     !.byDistrict = c.parts.byDistrict, !.weekly = c.parts.weekly,
     !.voters = c.parts.voters]

\* The statement issued after read q, or the response when q was the last.
AfterRead(c, q) ==
  LET i == CHOOSE j \in 1..Len(Reads(c.file)) : Reads(c.file)[j] = q
  IN IF i = Len(Reads(c.file)) THEN Return(Send(c, FullView(c)))
     ELSE Issue(c, Reads(c.file)[i + 1])

\* The candidate lookup returned.
\* app.js: if (e || !cand) return res.status(404)...
\* server.js: a rejected get is caught (500); if (!cand) return res.status(404)...
OnCandidate(c, err, cand) ==
  LET op == "GET /api/candidate/:id"
  IN IF c.file = "app.js"
       THEN IF err \/ cand = <<>>
              THEN Return(Send(IF err THEN Failed(c) ELSE c, NotFound(op)))
            ELSE AfterRead([c EXCEPT !.parts.candidate = cand], "candidate")
     ELSE IF err THEN Return(Send(Failed(c), StoreError(op)))
     ELSE IF cand = <<>> THEN Return(Send(c, NotFound(op)))
     ELSE AfterRead([c EXCEPT !.parts.candidate = cand], "candidate")

\* One of the later reads returned.
OnRows(c, err, rows) ==
  IF err THEN Return(Send(Failed(c), StoreError("GET /api/candidate/:id")))
  ELSE AfterRead([c EXCEPT !.parts[c.pc] = rows], c.pc)

\* Store d as it was when n voter rows had been inserted (in these runs no
\* other row is added once a view has been received, and no row is removed).
StoreAt(d, n) ==
  [d EXCEPT !.voters = SelectSeq(@, LAMBDA v : v.id <= n), !.seq.voters = n]

\* Every read of a request runs against the store as it was at its first.
StoreReadSnapshot(d, c) ==
  IF c.pc = "candidate" THEN d ELSE StoreAt(d, c.at["candidate"])

\* The store a statement of request c reads: the store as it is when the
\* statement runs.
StoreRead(d, c) == d


(***************************************************************************)
(* PUT /api/voters/:id as the statements it issues: the SELECT for another *)
(* row with the card (when the payload carries a non-empty card), then the *)
(* UPDATE.  The handler returns to the event loop at each await.           *)
(***************************************************************************)
IdleEdit == [pc |-> "idle", file |-> "", id |-> 0, body |-> <<>>,
             sent |-> <<>>, log |-> <<>>]

\* The synchronous part, up to the first await or the response.
BeginPutVoters(id, b) ==
  LET c == [IdleEdit EXCEPT !.file = "server.js", !.id = id, !.body = <<b>>]
  IN IF Given(b.electoral_card) /\ Truthy(b.electoral_card)
       THEN Issue(c, "selectOther")
     ELSE IF NoFields(b) THEN Return(Send(c, Changes("PUT /api/voters/:id", 0)))
     ELSE Issue(c, "update")

\* The SELECT returned from store d: 400 when another row holds the card,
\* else the UPDATE is issued (fields then holds electoral_card).
OnSelectOther(d, c, err) ==
  IF err THEN Return(Send(Failed(c), StoreError("PUT /api/voters/:id")))
  ELSE IF SelectOtherVoterByCard(d, c.body[1].electoral_card, c.id) # <<>>
    THEN Return(Send(c, BadRequest("PUT /api/voters/:id")))
  ELSE Issue(c, "update")

\* The UPDATE of request c fails on store d: a NOT NULL column would be NULL.
UpdateFails(d, c) ==
  \E i \in 1..Len(d.voters) :
    d.voters[i].id = c.id /\ NotNullViolated(UpdatedVoter(d.voters[i], c.body[1]))

\* UPDATE voters SET ... WHERE id=?
UpdateVoter(d, c) ==
  IF UpdateFails(d, c) THEN d
  ELSE [d EXCEPT !.voters =
          [i \in 1..Len(@) |-> IF @[i].id = c.id
                                 THEN UpdatedVoter(@[i], c.body[1])
                                 ELSE @[i]]]

\* The UPDATE ran against store d: r.changes, or the catch block's 500.
OnUpdate(d, c, err) ==
  IF err \/ UpdateFails(d, c)
    THEN Return(Send(Failed(c), StoreError("PUT /api/voters/:id")))
  ELSE Return(Send(c, Changes("PUT /api/voters/:id",
                              Len(SelectSeq(d.voters, LAMBDA v : v.id = c.id)))))

(***************************************************************************)
(* GET /api/party-progress as its two reads: the threshold row, then the   *)
(* count of voters; the response is written when the count returns.        *)
(***************************************************************************)
IdleProgress == [pc |-> "idle", file |-> "", row |-> <<>>,
                 sent |-> <<>>, log |-> <<>>]

BeginPartyProgress(file) == Issue([IdleProgress EXCEPT !.file = file], "threshold")

\* SELECT threshold FROM party WHERE id=1 returned from store d.
OnThreshold(d, c, err) ==
  IF err THEN Return(Send(Failed(c), StoreError("GET /api/party-progress")))
  ELSE Issue([c EXCEPT !.row = SelectPartyThreshold(d)], "count")

\* SELECT COUNT(*) AS supporters FROM voters returned from store d.
OnCount(d, c, err) ==
  IF err THEN Return(Send(Failed(c), StoreError("GET /api/party-progress")))
  ELSE Return(Send(c, [Json("GET /api/party-progress", 200, TRUE) EXCEPT
                         !.threshold = IF c.row # <<>> THEN c.row[1].threshold
                                       ELSE SqlInt(0),
                         !.supporters = CountVoters(d)]))

(***************************************************************************)
(* Inputs of the model.                                                    *)
(***************************************************************************)
\* req.body of POST /api/voters, its keys in the order of the destructuring.
VoterBody(cand, asst, aid, name, dob, dist, center, card) ==
  [candidate_id |-> cand, assistant_id |-> asst, aid |-> aid,
   full_name |-> name, dob |-> dob, district_id |-> dist,
   polling_center |-> center, electoral_card |-> card]

CandidateIdInputs == {Undef, JNull, JStr(""), JNum(0), JNum(1), JStr("2")}

FullNameInputs == {Undef, JStr(""), JStr("A")}

CardInputs == {Undef, JStr(""), JStr("X"), JStr("7"), JNum(7)}

AssistantIdInputs == {Undef, JNum(0), JNum(1)}

AidInputs == {Undef, JStr("2"), JStr("0"), JStr("abc")}

DobInputs == {Undef, JStr(""), JStr("1990-01-01")}

DistrictIdInputs == {Undef, JNum(1)}

PollingCenterInputs == {Undef, JStr("PC")}

\* The submissions of the interleaved runs: with card X, without a card, and
\* one that fails validation.
VoterBodies ==
  {VoterBody(JNum(1), Undef, Undef, JStr("A"), Undef, Undef, Undef, k) :
     k \in {Undef, JStr("X")}}
  \cup
  {VoterBody(Undef, Undef, Undef, JStr("A"), Undef, Undef, Undef, JStr("X"))}

\* The submissions of the serial runs: each card, the validation failures,
\* and two submissions that carry the optional fields and the assistant link.
SerialVoterBodies ==
  {VoterBody(JNum(1), Undef, Undef, JStr("A"), Undef, Undef, Undef, k) :
     k \in CardInputs}
  \cup
  {VoterBody(Undef, Undef, Undef, JStr("A"), Undef, Undef, Undef, JStr("X")),
   VoterBody(JNum(1), Undef, Undef, JStr(""), Undef, Undef, Undef, JStr("X")),
   VoterBody(JStr(""), Undef, Undef, Undef, Undef, Undef, Undef, Undef)}
  \cup
  {VoterBody(JStr("2"), JNum(1), JStr("2"), JStr("B"), JStr("1990-01-01"),
             JNum(1), JStr("PC"), Undef),
   VoterBody(JStr("2"), Undef, JStr("2"), JStr("B"), JStr(""), Undef, Undef,
             Undef)}

\* Payloads of PUT /api/voters/:id.
VoterEdits ==
  {VoterBody(Undef, Undef, Undef, Undef, Undef, Undef, Undef, k) :
     k \in {JStr(""), JStr("X")}}

\* Payloads of the serial runs: no field, each card, and a NULL candidate_id.
SerialVoterEdits ==
  {VoterBody(c, Undef, Undef, Undef, Undef, Undef, Undef, k) :
     c \in {Undef}, k \in {Undef, JStr(""), JStr("X"), JNum(7)}}
  \cup
  {VoterBody(JNull, Undef, Undef, Undef, Undef, Undef, Undef, JStr("X"))}

VoterIds == 1..MaxVoterId

CandidateBody(name, district_id, target) ==
  [name |-> name, district_id |-> district_id, target |-> target]

DistrictBody(name, official_voters, governorate_id) ==
  [name |-> name, official_voters |-> official_voters,
   governorate_id |-> governorate_id]

PartyBody(name, threshold, start_date, end_date) ==
  [name |-> name, threshold |-> threshold, start_date |-> start_date,
   end_date |-> end_date]

(***************************************************************************)
(* The state machine.  A handler of one statement runs in one step (the    *)
(* statement and the response written in its callback).  A handler of      *)
(* several statements is a request in calls: its synchronous part runs     *)
(* when it is received, then each statement runs with its callback in a    *)
(* step of its own, and the steps of other requests may run in between.    *)
(***************************************************************************)
\* The stores the program starts on: the file sqlite3 creates when no
\* database is shipped, and the shipped database/votes.db.  server.js listens
\* while ensureSchema is at its first statement.
InitialStores == {NewFile, DefaultDbFile}

Init ==
  /\ db \in InitialStores
  /\ resp = NoResp
  /\ calls = [k \in 1..MaxCalls |-> IdleCall]
  /\ boot = BootStart

\* The statement ensureSchema awaits runs, and ensureSchema up to its next
\* await (or to its end, or to process.exit(1) when the statement fails).
EnsureSchema ==
  /\ Booting(boot)
  /\ db' = AfterAwait(db, boot).db
  /\ boot' = AfterAwait(db, boot).boot
  /\ UNCHANGED <<resp, calls>>

\* The process of file f runs: server.js exits when ensureSchema fails.
Alive(f) == f = "server.js" => boot.pc # "exit"

\* A request is received by file f, in runs of up to MaxEarly requests
\* received while ensureSchema is still running.
Arrive(f) ==
  /\ Alive(f)
  /\ IF Booting(boot)
       THEN boot.early < MaxEarly /\ boot' = [boot EXCEPT !.early = @ + 1]
     ELSE UNCHANGED boot

\* A statement of the request in slot k runs.
Continue(k) == Alive(calls[k].file) /\ UNCHANGED boot

\* A handler of one statement, run to its response.
Commit(o) ==
  /\ o.db.seq.voters <= MaxVoterId
  /\ o.db.seq.candidates <= MaxCandidateId
  /\ o.db.seq.districts <= MaxDistrictId
  /\ Arrive(o.resp.by)
  /\ db' = o.db
  /\ resp' = o.resp
  /\ UNCHANGED calls

\* Slot k is the first free one: the request received takes it.
FreeSlot(k) ==
  /\ calls[k].pc = "idle"
  /\ \A j \in 1..(k - 1) : calls[j].pc # "idle"

\* No request is in flight.
Quiet == \A k \in 1..MaxCalls : calls[k].pc = "idle"

\* The number of requests in flight.
InFlight == Cardinality({k \in 1..MaxCalls : calls[k].pc # "idle"})

\* Request c of slot k has taken a step.  Once its handler is over its
\* response is the last one sent and the slot is free again.
Step(k, c) ==
  /\ calls' = [calls EXCEPT ![k] = IF c.pc = "done" THEN IdleCall ELSE c]
  /\ resp' = IF c.pc = "done" THEN c.sent[Len(c.sent)] ELSE resp

\* The submissions in flight that will insert a row unless they are answered
\* first.
Inserting == Cardinality({k \in 1..MaxCalls : calls[k].pc \in {"select", "insert"}})

\* POST /api/voters is received by file f with body b, in runs of up to n
\* voter rows.
ReceiveVoter(f, b, n) ==
  \E k \in 1..MaxCalls :
    /\ FreeSlot(k)
    /\ LET c == BeginSubmitVoter(f, b)
       IN /\ c.pc = "done" \/ db.seq.voters + Inserting < n
          /\ Step(k, c)
    /\ Arrive(f)
    /\ UNCHANGED db

\* The SELECT of a submission runs and its callback with it: the callback
\* receives an error when the statement cannot be prepared on the store.
VoterSelect ==
  \E k \in 1..MaxCalls :
    /\ calls[k].pc = "select"
    /\ Step(k, OnSelect(db, calls[k], ~Prepared(db, calls[k])))
    /\ Continue(k)
    /\ UNCHANGED db

\* The INSERT of a submission runs and its callback with it.
VoterInsert ==
  \E k \in 1..MaxCalls :
    /\ calls[k].pc = "insert"
    /\ db' = IF Prepared(db, calls[k])
               THEN InsertVoter(db, calls[k].assistant_id, calls[k].body[1])
             ELSE db
    /\ Step(k, OnInsert(db', calls[k], ~Prepared(db, calls[k])))
    /\ Continue(k)

\* PUT /api/voters/:id is received.
ReceiveEdit(id, b) ==
  \E k \in 1..MaxCalls :
    /\ FreeSlot(k)
    /\ Step(k, BeginPutVoters(id, b))
    /\ Arrive("server.js")
    /\ UNCHANGED db

EditSelect ==
  \E k \in 1..MaxCalls :
    /\ calls[k].pc = "selectOther"
    /\ Step(k, OnSelectOther(db, calls[k], ~Prepared(db, calls[k])))
    /\ Continue(k)
    /\ UNCHANGED db

EditUpdate ==
  \E k \in 1..MaxCalls :
    /\ calls[k].pc = "update"
    /\ db' = IF Prepared(db, calls[k]) THEN UpdateVoter(db, calls[k]) ELSE db
    /\ Step(k, OnUpdate(db, calls[k], ~Prepared(db, calls[k])))
    /\ Continue(k)

\* GET /api/party-progress is received by file f.
ReceiveProgress(f) ==
  \E k \in 1..MaxCalls :
    /\ FreeSlot(k)
    /\ Step(k, BeginPartyProgress(f))
    /\ Arrive(f)
    /\ UNCHANGED db

ProgressThreshold ==
  \E k \in 1..MaxCalls :
    /\ calls[k].pc = "threshold"
    /\ Step(k, OnThreshold(db, calls[k], ~Prepared(db, calls[k])))
    /\ Continue(k)
    /\ UNCHANGED db

ProgressCount ==
  \E k \in 1..MaxCalls :
    /\ calls[k].pc = "count"
    /\ Step(k, OnCount(db, calls[k], ~Prepared(db, calls[k])))
    /\ Continue(k)
    /\ UNCHANGED db

\* The callback of the read request c waited for.
OnRead(c, err, rows) ==
  IF c.pc = "candidate" THEN OnCandidate(c, err, rows) ELSE OnRows(c, err, rows)

\* GET /api/candidate/:id is received by app.js, in runs of up to MaxPending
\* requests in flight.
CandidateView ==
  \E k \in 1..MaxCalls, id \in 1..MaxCandidateId :
    /\ InFlight < MaxPending
    /\ FreeSlot(k)
    /\ Step(k, Issue([IdleView EXCEPT !.file = "app.js", !.id = id], "candidate"))
    /\ Arrive("app.js")
    /\ UNCHANGED db

\* A read of a candidate view runs: it fails when it cannot be prepared.
ViewRead ==
  \E k \in 1..MaxCalls :
    /\ calls[k].pc \in Parts
    /\ IF Prepared(db, calls[k])
         THEN \E rows \in ReadResults(db, calls[k]) : Step(k, OnRead(calls[k], FALSE, rows))
       ELSE Step(k, OnRead(calls[k], TRUE, <<>>))
    /\ Continue(k)
    /\ UNCHANGED db

SubmitVoterApp == \E b \in VoterBodies : ReceiveVoter("app.js", b, MaxVoterId)

SubmitVoterServer == \E b \in VoterBodies : ReceiveVoter("server.js", b, MaxVoterId)

EditVoter == \E id \in VoterIds, b \in VoterEdits : ReceiveEdit(id, b)

RemoveVoter == \E id \in VoterIds : Commit(DeleteVoters(db, id))

PartyProgressApp == ReceiveProgress("app.js")

PartyProgressServer == ReceiveProgress("server.js")

Next ==
  \/ EnsureSchema
  \/ SubmitVoterApp
  \/ SubmitVoterServer
  \/ VoterSelect
  \/ VoterInsert
  \/ EditVoter
  \/ EditSelect
  \/ EditUpdate
  \/ RemoveVoter

Spec == Init /\ [][Next]_vars

(***************************************************************************)
(* The same handlers when each runs to completion before the next starts:  *)
(* a request is received only when none is in flight.                      *)
(***************************************************************************)
SerialSubmitVoterApp ==
  Quiet /\ \E b \in SerialVoterBodies : ReceiveVoter("app.js", b, MaxVoterId)

SerialSubmitVoterServer ==
  Quiet /\ \E b \in SerialVoterBodies : ReceiveVoter("server.js", b, MaxVoterId)

SerialEditVoter ==
  Quiet /\ \E id \in VoterIds, b \in SerialVoterEdits : ReceiveEdit(id, b)

SerialRemoveVoter == Quiet /\ RemoveVoter

NextSerial ==
  \/ EnsureSchema
  \/ SerialSubmitVoterApp
  \/ SerialSubmitVoterServer
  \/ VoterSelect
  \/ VoterInsert
  \/ SerialEditVoter
  \/ EditSelect
  \/ EditUpdate
  \/ SerialRemoveVoter

SpecSerial == Init /\ [][NextSerial]_vars


(***************************************************************************)
(* Interleaved submissions: up to MaxCalls requests in flight, each taking *)
(* its steps in any order with the others'.                                *)
(***************************************************************************)
Files == {"app.js", "server.js"}

ConcBodies ==
  {VoterBody(JNum(1), Undef, Undef, JStr("A"), Undef, Undef, Undef, k) :
     k \in {Undef, JStr("X"), JStr("7")}}
  \cup
  {VoterBody(JNum(1), Undef, Undef, Undef, Undef, Undef, Undef, JStr("X"))}

\* The response of call c, once it has one.
Sent(c) == IF c.pc = "done" THEN c.resp ELSE resp

Receive(k) ==
  /\ calls[k].pc = "idle"
  /\ \E f \in Files, b \in ConcBodies :
       /\ calls' = [calls EXCEPT ![k] = BeginPostVoters(f, b)]
       /\ resp' = Sent(calls'[k])
       /\ Arrive(f)
  /\ UNCHANGED db

RunSelect(k) ==
  /\ calls[k].pc = "select"
  /\ calls' = [calls EXCEPT ![k] = AfterSelect(db, @)]
  /\ resp' = Sent(calls'[k])
  /\ Continue(k)
  /\ UNCHANGED db

RunInsert(k) ==
  /\ calls[k].pc = "insert"
  /\ db.seq.voters < MaxVoterId
  /\ IF Prepared(db, calls[k])
       THEN /\ db' = InsertVoter(db, calls[k].assistant_id, calls[k].body[1])
            /\ calls' = [calls EXCEPT ![k] = AfterInsert(db', @)]
     ELSE /\ db' = db
          /\ calls' = [calls EXCEPT ![k] = AfterError(@)]
  /\ resp' = Sent(calls'[k])
  /\ Continue(k)

NextConc ==
  \/ EnsureSchema
  \/ \E k \in 1..MaxCalls : Receive(k)
  \/ \E k \in 1..MaxCalls : RunSelect(k)
  \/ \E k \in 1..MaxCalls : RunInsert(k)

SpecConc == Init /\ [][NextConc]_vars

(***************************************************************************)
(* Party progress: submissions and deletions of voters, candidates that    *)
(* come and go, and the two ways the threshold is saved.                   *)
(***************************************************************************)
\* Submissions under candidates 1 and 2, whether or not they exist.
PlainVoterBodies ==
  {VoterBody(c, Undef, Undef, JStr("A"), Undef, Undef, Undef, Undef) :
     c \in {JNum(1), JStr("2")}}

SubmitPlainVoter ==
  \E f \in Files, b \in PlainVoterBodies : ReceiveVoter(f, b, MaxVoterId)

AddPlainCandidate ==
  \E b \in {CandidateBody(JStr("C"), Undef, Undef)} : Commit(PostCandidates(db, b))

\* Submissions under candidate 1, before it exists, while it does and after
\* it was deleted.
PartyVoterBodies ==
  {VoterBody(JNum(1), Undef, Undef, JStr("A"), Undef, Undef, Undef, Undef)}

SubmitPartyVoter ==
  \E f \in Files, b \in PartyVoterBodies : ReceiveVoter(f, b, MaxVoterId)

MaxPartyCandidates == 1

AddPartyCandidate ==
  /\ db.seq.candidates < MaxPartyCandidates
  /\ AddPlainCandidate

RemoveCandidate ==
  \E id \in 1..MaxCandidateId : Commit(DeleteCandidates(db, id))

SaveParty ==
  \E b \in {PartyBody(JStr("P"), JStr("7"), Undef, Undef)} : Commit(PutParty(db, b))

SaveThreshold ==
  \E b \in {[threshold |-> JStr("7")], [threshold |-> JNum(-1)]} :
    Commit(PostPartyProgress(db, b))

NextParty ==
  \/ EnsureSchema
  \/ SubmitPartyVoter
  \/ VoterInsert
  \/ ProgressThreshold
  \/ ProgressCount
  \/ RemoveVoter
  \/ AddPartyCandidate
  \/ RemoveCandidate
  \/ SaveParty
  \/ SaveThreshold
  \/ PartyProgressApp
  \/ PartyProgressServer

SpecParty == Init /\ [][NextParty]_vars

(***************************************************************************)
(* Candidate progress: candidates with their targets and districts, and    *)
(* the voters submitted under them.                                        *)
(***************************************************************************)
TargetInputs == {Undef, JNum(-1), JStr("3")}

AggCandidateBodies ==
  {CandidateBody(JStr("C"), Undef, t) : t \in TargetInputs}
    \cup {CandidateBody(JStr("C"), JNum(1), JNum(3)),
          CandidateBody(Undef, Undef, JNum(3))}

CandidateEdits ==
  {CandidateBody(JStr("C"), Undef, JNum(16)), CandidateBody(Undef, Undef, JNum(16))}

AddCandidate == \E b \in AggCandidateBodies : Commit(PostCandidates(db, b))

ChangeCandidate ==
  \E id \in 1..MaxCandidateId, b \in CandidateEdits : Commit(PutCandidates(db, id, b))

AddDistrict ==
  \E b \in {DistrictBody(JStr("D"), JStr("5"), Undef),
            DistrictBody(Undef, Undef, Undef)} : Commit(PostDistricts(db, b))

CandidatesServer == \E o \in GetCandidatesServer(db) : Commit(o)

CandidatesApp == \E o \in GetCandidatesApp(db) : Commit(o)

NextAgg ==
  \/ EnsureSchema
  \/ SubmitPlainVoter
  \/ VoterInsert
  \/ AddCandidate
  \/ ChangeCandidate
  \/ RemoveCandidate
  \/ AddDistrict
  \/ CandidatesServer
  \/ CandidatesApp

SpecAgg == Init /\ [][NextAgg]_vars

(***************************************************************************)
(* Duplicate review: voters that share or do not share a name and a date   *)
(* of birth, under one candidate or two.                                   *)
(***************************************************************************)
MaxDupVoters == 5

DupVoterBodies ==
  {VoterBody(JNum(1), Undef, Undef, JStr("A"), JStr("1990"), Undef, Undef, Undef),
   VoterBody(JStr("2"), Undef, Undef, JStr("A"), JStr("1990"), Undef, Undef, Undef),
   VoterBody(JNum(1), Undef, Undef, JStr("B"), JStr("1990"), Undef, Undef, Undef),
   VoterBody(JNum(1), Undef, Undef, JStr("A"), JStr("1991"), Undef, Undef, Undef)}

DupVoterEdits ==
  {VoterBody(Undef, Undef, Undef, JStr(""), Undef, Undef, Undef, Undef),
   VoterBody(Undef, Undef, Undef, Undef, JStr(""), Undef, Undef, Undef)}

\* A handler that runs to its response, in runs of up to MaxDupVoters voters.
CommitDup(o) ==
  /\ o.db.seq.voters <= MaxDupVoters
  /\ Arrive(o.resp.by)
  /\ db' = o.db
  /\ resp' = o.resp
  /\ UNCHANGED calls

SubmitDupVoter ==
  /\ InFlight < MaxPending
  /\ \E b \in DupVoterBodies : ReceiveVoter("app.js", b, MaxDupVoters)

EditDupVoter ==
  /\ InFlight < MaxPending
  /\ \E id \in VoterIds, b \in DupVoterEdits : ReceiveEdit(id, b)

FuzzyDuplicates == \E o \in GetFuzzyDuplicates(db) : CommitDup(o)

NextDup ==
  \/ EnsureSchema
  \/ SubmitDupVoter
  \/ VoterInsert
  \/ EditDupVoter
  \/ EditUpdate
  \/ FuzzyDuplicates

SpecDup == Init /\ [][NextDup]_vars

(***************************************************************************)
(* District distribution: two districts of different official_voters,      *)
(* voters with a district, without one, or with one that does not exist.   *)
(***************************************************************************)
MaxDistricts == 2

DistDistrictBodies ==
  {DistrictBody(JStr("D"), JStr("5"), Undef), DistrictBody(JStr("D"), JNum(9), Undef)}

DistVoterBodies ==
  {VoterBody(JNum(1), Undef, Undef, JStr("A"), Undef, JNum(1), Undef, Undef),
   VoterBody(JNum(1), Undef, Undef, JStr("A"), Undef, JStr("2"), Undef, Undef),
   VoterBody(JStr("2"), Undef, Undef, JStr("A"), Undef, JNum(1), Undef, Undef),
   VoterBody(JNum(1), Undef, Undef, JStr("A"), Undef, Undef, Undef, Undef),
   VoterBody(JNum(1), Undef, Undef, JStr("A"), Undef, JNum(9), Undef, Undef)}

\* A handler that runs to its response, in runs of up to MaxDistricts
\* districts.
CommitDist(o) ==
  /\ o.db.seq.voters <= MaxVoterId
  /\ o.db.seq.candidates <= MaxCandidateId
  /\ o.db.seq.districts <= MaxDistricts
  /\ Arrive(o.resp.by)
  /\ db' = o.db
  /\ resp' = o.resp
  /\ UNCHANGED calls

AddDistDistrict == \E b \in DistDistrictBodies : CommitDist(PostDistricts(db, b))

AddDistCandidate ==
  \E b \in {CandidateBody(JStr("C"), Undef, Undef)} : CommitDist(PostCandidates(db, b))

SubmitDistVoter ==
  /\ InFlight < MaxPending
  /\ \E b \in DistVoterBodies : ReceiveVoter("app.js", b, MaxVoterId)

PartyDistricts == \E o \in GetPartyDistricts(db) : CommitDist(o)

NextDist ==
  \/ EnsureSchema
  \/ AddDistDistrict
  \/ AddDistCandidate
  \/ SubmitDistVoter
  \/ VoterInsert
  \/ PartyDistricts
  \/ CandidateView
  \/ ViewRead

SpecDist == Init /\ [][NextDist]_vars

(***************************************************************************)
(* Weekly growth: voters submitted as the days pass.                       *)
(***************************************************************************)
MaxDay == 8

\* Days 0, 4 and 8: two days of one week and a day of the next.
DaySteps == {4}

\* CURRENT_TIMESTAMP moves on between requests.
Tick ==
  /\ \E n \in DaySteps : /\ db.now + n <= MaxDay
                         /\ db' = [db EXCEPT !.now = @ + n]
  /\ UNCHANGED <<resp, calls, boot>>

PartyWeekly == \E o \in GetPartyWeekly(db) : Commit(o)

SubmitWeeklyVoter == InFlight < MaxPending /\ SubmitPlainVoter

NextWeekly ==
  \/ EnsureSchema
  \/ Tick
  \/ SubmitWeeklyVoter
  \/ VoterInsert
  \/ RemoveVoter
  \/ AddPlainCandidate
  \/ PartyWeekly
  \/ CandidateView
  \/ ViewRead

SpecWeekly == Init /\ [][NextWeekly]_vars

(***************************************************************************)
(* Deletions under references: a district with candidates, a candidate     *)
(* with voters and assistants.                                             *)
(***************************************************************************)
MaxAssistantId == 1

AssistantBody(candidate_id, name, phone, area_tags) ==
  [candidate_id |-> candidate_id, name |-> name, phone |-> phone,
   area_tags |-> area_tags]

AssistantBodies ==
  {AssistantBody(JNum(1), JStr("A"), Undef, Undef),
   AssistantBody(JNum(1), Undef, Undef, Undef)}

RefCandidateBodies ==
  {CandidateBody(JStr("C"), JNum(1), Undef), CandidateBody(JStr("C"), Undef, Undef)}

AddRefCandidate == \E b \in RefCandidateBodies : Commit(PostCandidates(db, b))

AddAssistant ==
  \E f \in Files, b \in AssistantBodies :
    /\ PostAssistantsOf(f, db, b).db.seq.assistants <= MaxAssistantId
    /\ Commit(PostAssistantsOf(f, db, b))

RemoveDistrict == \E id \in 1..MaxDistrictId : Commit(DeleteDistricts(db, id))

NextRef ==
  \/ EnsureSchema
  \/ AddDistrict
  \/ RemoveDistrict
  \/ AddRefCandidate
  \/ RemoveCandidate
  \/ AddAssistant
  \/ SubmitPlainVoter
  \/ VoterInsert
  \/ CandidatesServer
  \/ PartyProgressServer
  \/ ProgressThreshold
  \/ ProgressCount

SpecRef == Init /\ [][NextRef]_vars

(***************************************************************************)
(* Names: creations and updates of governorates, districts and candidates  *)
(* with a name, with an empty name and without one.                        *)
(***************************************************************************)
MaxGovernorateId == 1

NameInputs == {Undef, JStr(""), JStr("C")}

AddGovernorate ==
  \E n \in NameInputs :
    /\ PostGovernorates(db, [name |-> n]).db.seq.governorates <= MaxGovernorateId
    /\ Commit(PostGovernorates(db, [name |-> n]))

RemoveGovernorate ==
  \E id \in 1..MaxGovernorateId : Commit(DeleteGovernorates(db, id))

AddNamedDistrict ==
  \E n \in NameInputs : Commit(PostDistricts(db, DistrictBody(n, Undef, Undef)))

ChangeNamedDistrict ==
  \E id \in 1..MaxDistrictId, n \in NameInputs :
    Commit(PutDistricts(db, id, DistrictBody(n, Undef, Undef)))

AddNamedCandidate ==
  \E n \in NameInputs : Commit(PostCandidates(db, CandidateBody(n, Undef, Undef)))

ChangeNamedCandidate ==
  \E id \in 1..MaxCandidateId, n \in NameInputs :
    Commit(PutCandidates(db, id, CandidateBody(n, Undef, Undef)))

NextNames ==
  \/ EnsureSchema
  \/ AddGovernorate
  \/ RemoveGovernorate
  \/ AddNamedDistrict
  \/ ChangeNamedDistrict
  \/ AddNamedCandidate
  \/ ChangeNamedCandidate

SpecNames == Init /\ [][NextNames]_vars

(***************************************************************************)
(* Claims on POST /api/voters (SpecSerial), checked on every store reached  *)
(* with no request in flight, on every submission of the probe sets below, *)
(* for the handler of each file run on that store to its response.         *)
(***************************************************************************)
PostVotersOf(file, d, b) ==
  IF file = "app.js" THEN PostVotersApp(d, b) ELSE PostVotersServer(d, b)

\* Some voter row of d holds the non-empty card x.
HoldsCard(d, x) ==
  /\ Truthy(x)
  /\ \E i \in 1..Len(d.voters) :
       d.voters[i].electoral_card = SqlText(IF x.t = "num" THEN ToString(x.n)
                                            ELSE x.s)

IsCreated(r) ==
  r.op = "POST /api/voters" /\ r.status = 200 /\ r.ok /\ ~r.duplicate /\ r.id > 0

IsDuplicate(r) ==
  r.op = "POST /api/voters" /\ r.status = 200 /\ r.ok /\ r.duplicate /\ r.id = 0

IsBadRequest(r) == r.op = "POST /api/voters" /\ r.status = 400 /\ ~r.ok

\* Submissions over every candidate_id, full_name and card of the inputs.
CardProbes ==
  {VoterBody(c, Undef, Undef, n, Undef, Undef, Undef, k) :
     c \in CandidateIdInputs, n \in FullNameInputs, k \in CardInputs}

\* C1 as stated: when handlers run one after another and a row holds the
\* non-empty card X, every submission carrying X answers {ok, duplicate} and
\* leaves the number of voter rows as it was.
C1_AnySubmissionOfHeldCardIsDuplicate ==
  Quiet =>
  \A f \in Files, b \in CardProbes :
    LET o == PostVotersOf(f, db, b)
    IN HoldsCard(db, b.electoral_card) =>
         /\ IsDuplicate(o.resp)
         /\ Len(o.db.voters) = Len(db.voters)

\* C1 amended: a submission with non-empty candidate_id and full_name that
\* carries a held card answers {ok, duplicate}; every submission carrying a held
\* card, valid or not, leaves the number of voter rows as it was.
C1_ValidSubmissionOfHeldCardIsDuplicate ==
  Quiet =>
  \A f \in Files, b \in CardProbes :
    LET o == PostVotersOf(f, db, b)
    IN HoldsCard(db, b.electoral_card) =>
         /\ (Truthy(b.candidate_id) /\ Truthy(b.full_name)
               => IsDuplicate(o.resp))
         /\ Len(o.db.voters) = Len(db.voters)

\* A duplicate outcome was sent while a row holds a card.
C1_Witness ==
  /\ IsDuplicate(resp)
  /\ \E i \in 1..Len(db.voters) : db.voters[i].electoral_card.t = "text"

\* C3: with handlers run to completion one after another (submissions, edits,
\* deletions), no two voter rows hold the same non-empty electoral_card.
C3_CardsUnique ==
  \A i, j \in 1..Len(db.voters) :
    (i # j /\ db.voters[i].electoral_card.t # "null"
           /\ db.voters[i].electoral_card.s # "")
      => db.voters[i].electoral_card # db.voters[j].electoral_card

\* Two rows hold different cards and an edit onto the other row's card was
\* refused.
C3_Witness ==
  /\ Len(db.voters) = 2
  /\ db.voters[1].electoral_card.t = "text"
  /\ db.voters[2].electoral_card.t = "text"
  /\ resp.op = "PUT /api/voters/:id" /\ resp.status = 400

\* The column value of a submitted field: NULL when absent or empty.
Stored(x, affinity(_)) == IF Truthy(x) THEN affinity(Bind(x)) ELSE SqlNull

\* Submissions over the optional fields, with and without a card.
FieldProbes ==
  {VoterBody(c, JNum(1), Undef, n, b, x, p, k) :
     c \in {JNum(1), JStr("2")}, n \in {JStr("A")}, b \in DobInputs, x \in DistrictIdInputs, p \in PollingCenterInputs,
     k \in {Undef, JStr(""), JStr("X")}}
  \cup
  {VoterBody(c, Undef, Undef, n, JStr("1990-01-01"), JNum(1), JStr("PC"), k) :
     c \in CandidateIdInputs, n \in FullNameInputs, k \in {Undef, JStr("X")}}

\* C4: on a store that has the tables ensureSchema creates, a valid submission
\* whose card no row holds appends exactly one row, which
\* carries the submitted fields (absent optional fields as NULL), answers with
\* the row's new id and changes no other row and no other table; a duplicate
\* outcome or a validation failure appends nothing.
C4_OneRowAppended ==
  (Quiet /\ Ensured(db)) =>
  \A f \in Files, b \in FieldProbes :
    LET o == PostVotersOf(f, db, b)
        n == Len(db.voters)
        row == o.db.voters[n + 1]
    IN IF Truthy(b.candidate_id) /\ Truthy(b.full_name)
          /\ ~HoldsCard(db, b.electoral_card)
         THEN /\ IsCreated(o.resp)
              /\ Len(o.db.voters) = n + 1
              /\ SubSeq(o.db.voters, 1, n) = db.voters
              /\ row.id = o.resp.id
              /\ o.resp.id \notin Ids(db.voters)
              /\ row.candidate_id = Stored(b.candidate_id, IntegerAffinity)
              /\ row.assistant_id = Stored(b.assistant_id, IntegerAffinity)
              /\ row.full_name = Stored(b.full_name, TextAffinity)
              /\ row.dob = Stored(b.dob, TextAffinity)
              /\ row.district_id = Stored(b.district_id, IntegerAffinity)
              /\ row.polling_center = Stored(b.polling_center, TextAffinity)
              /\ row.electoral_card = Stored(b.electoral_card, TextAffinity)
              /\ \A t \in DOMAIN db \ {"voters", "seq"} : o.db[t] = db[t]
              /\ o.db.seq.candidates = db.seq.candidates
              /\ o.db.seq.districts = db.seq.districts
         ELSE /\ IsDuplicate(o.resp) \/ IsBadRequest(o.resp)
              /\ o.db = db

\* A second row was appended that carries every optional field.
C4_Witness ==
  /\ IsCreated(resp)
  /\ Len(db.voters) = 2
  /\ db.voters[2].id = resp.id
  /\ db.voters[2].dob.t = "text"
  /\ db.voters[2].polling_center.t = "text"
  /\ db.voters[2].district_id.t = "int"

\* Submissions without candidate_id or without full_name, over every
\* combination of the other fields.
InvalidProbes ==
  {b \in {VoterBody(c, a, l, n, x, y, p, k) :
            c \in CandidateIdInputs, a \in {Undef, JNum(1)},
            l \in {Undef, JStr("2")}, n \in FullNameInputs,
            x \in {Undef, JStr("1990-01-01")}, y \in DistrictIdInputs,
            p \in PollingCenterInputs, k \in {Undef, JStr("X")}} :
     b.candidate_id \in {Undef, JNull, JStr(""), JNum(0)}
       \/ b.full_name \in {Undef, JStr("")}}

\* C5: a submission whose candidate_id or full_name is absent or empty answers
\* 400 {ok:false} whatever the other fields are and whether or not a row holds
\* its card, and leaves the store as it was.
C5_MissingRequiredFieldIs400 ==
  Quiet =>
  \A f \in Files, b \in InvalidProbes :
    LET o == PostVotersOf(f, db, b)
    IN IsBadRequest(o.resp) /\ o.db = db

\* A submission was refused with 400 while a row holds the card X.
C5_Witness ==
  /\ IsBadRequest(resp)
  /\ HoldsCard(db, JStr("X"))

\* Submissions over every assistant_id and aid.
AssistantProbes ==
  {VoterBody(JNum(1), a, l, JStr("A"), Undef, Undef, Undef, Undef) :
     a \in AssistantIdInputs, l \in AidInputs}

\* C6: on a store that has the tables ensureSchema creates, the stored
\* assistant is the explicit assistant_id whenever one is
\* supplied, also when aid is supplied too; it comes from aid only when
\* assistant_id is absent (app.js then stores aid's number); it is NULL when
\* neither is supplied.
C6_ExplicitAssistantWins ==
  (Quiet /\ Ensured(db)) =>
  \A f \in Files, b \in AssistantProbes :
    LET o == PostVotersOf(f, db, b)
        stored == o.db.voters[Len(o.db.voters)].assistant_id
    IN /\ IsCreated(o.resp)
       /\ Truthy(b.assistant_id) => stored = SqlInt(b.assistant_id.n)
       /\ ~Truthy(b.assistant_id) =>
            stored \in {SqlNull} \cup {SqlInt(2) : x \in {b.aid} \cap {JStr("2")}}
       /\ (~Truthy(b.assistant_id) /\ ~Truthy(b.aid)) => stored = SqlNull
       /\ (f = "app.js" /\ ~Truthy(b.assistant_id) /\ b.aid = JStr("2"))
            => stored = SqlInt(2)

\* A row stored by app.js whose submission carried assistant_id 1 and aid "2"
\* holds assistant 1, next to a row that took its assistant from aid.
C6_Witness ==
  /\ IsCreated(resp) /\ resp.by = "app.js"
  /\ Len(db.voters) = 2
  /\ db.voters[1].assistant_id = SqlInt(2)
  /\ db.voters[2].assistant_id = SqlInt(1)


(***************************************************************************)
(* Claims on interleaved submissions (SpecConc).                           *)
(***************************************************************************)
CardOf(c) == c.body[1].electoral_card

\* Call c found no row holding its card and has inserted.
PassedAndInserted(c) ==
  /\ c.pc = "done" /\ c.body # <<>>
  /\ Truthy(CardOf(c))
  /\ ~IsDuplicate(c.resp) /\ ~IsBadRequest(c.resp) /\ c.resp.status # 500

\* C2: two interleaved submissions of the same non-empty card that both passed
\* the existence check both insert: each caller receives {ok:true, id} with an
\* id of its own, and the store holds both rows with the same electoral_card
\* (a call answered 500 because the voters table did not exist yet has
\* inserted nothing and is not one of the two).
C2_BothPassBothInsert ==
  \A j, k \in 1..MaxCalls :
    (j # k /\ PassedAndInserted(calls[j]) /\ PassedAndInserted(calls[k])
       /\ CardOf(calls[j]) = CardOf(calls[k]))
      => /\ IsCreated(calls[j].resp) /\ IsCreated(calls[k].resp)
         /\ calls[j].resp.id # calls[k].resp.id
         /\ \E m, n \in 1..Len(db.voters) :
              /\ db.voters[m].id = calls[j].resp.id
              /\ db.voters[n].id = calls[k].resp.id
              /\ db.voters[m].electoral_card = SqlText(CardOf(calls[j]).s)
              /\ db.voters[n].electoral_card = SqlText(CardOf(calls[j]).s)

\* No row held X when the two calls started; both were answered {ok, id} and
\* two rows hold X.
C2_Witness ==
  /\ Len(db.voters) = 2
  /\ db.voters[1].electoral_card = SqlText("X")
  /\ db.voters[2].electoral_card = SqlText("X")
  /\ IsCreated(calls[1].resp) /\ IsCreated(calls[2].resp)
  /\ calls[1].resp.id # calls[2].resp.id


(***************************************************************************)
(* Claims on party progress (SpecParty).                                   *)
(***************************************************************************)
IsPartyProgress(r) == r.op = "GET /api/party-progress" /\ r.status = 200

\* The answer r reports every voter row of store d and the threshold of its
\* party row.
ReportsStore(r, d) ==
  /\ r.supporters = Cardinality(Ids(d.voters))
  /\ \E p \in 1..Len(d.party) :
       d.party[p].id = 1 /\ r.threshold = d.party[p].threshold

\* The response of party progress of file f when its two reads run on store
\* d one after the other, no other statement between them.
RunPartyProgress(f, d) ==
  OnCount(d, OnThreshold(d, BeginPartyProgress(f), FALSE), FALSE).sent[1]

\* C7: on every reachable store that has the tables and the party row
\* ensureSchema creates, party progress (either file) run after the
\* operations that led to it answers with supporters equal to the number of
\* voter rows in the store, whatever candidates they reference, and threshold
\* equal to the party row's threshold, and leaves the store as it was; and
\* every answer of party progress, also one whose reads other handlers'
\* statements ran between, reports the number of voter rows of the store it
\* was answered on.
C7_PartyProgressCountsEveryRow ==
  /\ Ensured(db) =>
       \A f \in Files :
         /\ IsPartyProgress(RunPartyProgress(f, db))
         /\ ReportsStore(RunPartyProgress(f, db), db)
         /\ RunPartyProgress(f, db).by = f
  /\ Ensured(db) =>
       \A o \in {GetPartyProgressApp(db), GetPartyProgressServer(db)} :
         o.resp = RunPartyProgress(o.resp.by, db) /\ o.db = db
  /\ IsPartyProgress(resp) => resp.supporters = Cardinality(Ids(db.voters))

\* Party progress answered 2 supporters and the saved threshold 7 while one of
\* the two voter rows references a candidate that has been deleted.
C7_Witness ==
  /\ IsPartyProgress(resp)
  /\ resp.supporters = 2 /\ resp.threshold = SqlInt(7)
  /\ db.seq.candidates >= 1 /\ 1 \notin Ids(db.candidates)
  /\ \E i \in 1..Len(db.voters) : db.voters[i].candidate_id = SqlInt(1)

(***************************************************************************)
(* Claims on the candidate progress list (SpecAgg).                        *)
(***************************************************************************)
IsCandidateList(r) == r.op = "GET /api/candidates" /\ r.status = 200

\* The voter rows of store d whose candidate reference is candidate id.
ReferencesTo(d, id) ==
  {k \in 1..Len(d.voters) : d.voters[k].candidate_id = SqlInt(id)}

\* rows has one entry per candidate of store d, each with its exact count.
OneEntryEach(rows, d) ==
  /\ Len(rows) = Len(d.candidates)
  /\ \A i \in 1..Len(d.candidates) :
       \E j \in 1..Len(rows) : rows[j].id = d.candidates[i].id
  /\ \A j \in 1..Len(rows) :
       rows[j].supporters = Cardinality(ReferencesTo(d, rows[j].id))

\* C8: in every reachable store that has the tables ensureSchema creates, the
\* candidate progress list (server.js, and
\* app.js on a store that has the view it reads) has exactly one entry for
\* every existing candidate, those without voters included with supporters 0,
\* and each entry's supporters is the number of voter rows whose candidate_id
\* is that candidate.
C8_OneEntryPerCandidate ==
  /\ Ensured(db) =>
       \A o \in GetCandidatesServer(db) :
         IsCandidateList(o.resp) /\ OneEntryEach(o.resp.rows, db)
  /\ (Ensured(db) /\ HasView(db, "vw_candidate_progress")) =>
       \A o \in GetCandidatesApp(db) :
         IsCandidateList(o.resp) /\ OneEntryEach(o.resp.rows, db)
  /\ IsCandidateList(resp) => OneEntryEach(resp.rows, db)

\* The list was answered with two entries: a candidate joined to its district
\* with both voter rows, and a candidate without voters at supporters 0.
C8_Witness ==
  /\ IsCandidateList(resp) /\ resp.by = "server.js"
  /\ Len(resp.rows) = 2 /\ Len(db.voters) = 2
  /\ \E i, j \in 1..2 :
       /\ resp.rows[i].supporters = 2 /\ resp.rows[i].district = SqlText("D")
       /\ resp.rows[j].supporters = 0

MaxSweepSupporters == 4
MaxSweepTarget == 16

\* pct is 100*supporters/target to the nearest tenth when target > 0, and 0
\* when target is 0, negative or NULL.
NearestTenth(pct, supporters, target) ==
  IF target.t \in {"int", "real"} /\ target.n > 0
    THEN /\ pct.t = "tenths"
         /\ 2 * Abs(pct.n * target.n - 1000 * supporters * Pow10(target.e))
              <= target.n
    ELSE pct = Tenths(0)

\* C9: every entry of the candidate progress list has pct equal to
\* 100*supporters/target rounded to one decimal place when target > 0 (10*pct
\* is the integer nearest to 1000*supporters/target) and 0 when target is 0,
\* negative or missing; the same holds of the computation for every count up
\* to MaxSweepSupporters and every target from -1 to MaxSweepTarget, NULL or
\* 2000 (where 3 supporters are a tie that SQLite builds round either way),
\* so no input divides by zero.
C9_PctRoundedOrZero ==
  /\ \A o \in GetCandidatesServer(db) :
       \A j \in 1..Len(o.resp.rows) :
         NearestTenth(o.resp.rows[j].pct, o.resp.rows[j].supporters,
                      o.resp.rows[j].target)
  /\ IsCandidateList(resp) =>
       \A j \in 1..Len(resp.rows) :
         NearestTenth(resp.rows[j].pct, resp.rows[j].supporters, resp.rows[j].target)
  /\ \A n \in 0..MaxSweepSupporters :
       \A t \in {SqlNull, SqlInt(2000)} \cup {SqlInt(k) : k \in -1..MaxSweepTarget} :
         \A p \in Pct(n, t) : NearestTenth(p, n, t)

\* The list was answered with one voter of target 16 at 6.3 (6.25 rounded) and
\* one voter of target -1 at 0.
C9_Witness ==
  /\ IsCandidateList(resp) /\ resp.by = "server.js"
  /\ \E i, j \in 1..Len(resp.rows) :
       /\ resp.rows[i].target = SqlInt(16) /\ resp.rows[i].supporters = 1
       /\ resp.rows[i].pct = Tenths(63)
       /\ resp.rows[j].target = SqlInt(-1) /\ resp.rows[j].supporters = 1
       /\ resp.rows[j].pct = Tenths(0)

\* rows is in supporters descending order, equal supporters in ascending id
\* order.
TiesInIdOrder(rows) ==
  \A i, j \in 1..Len(rows) :
    i < j => \/ rows[i].supporters > rows[j].supporters
  /\ resp.rows[1].id = 1 /\ resp.rows[1].supporters = 1
  /\ resp.rows[2].id = 2 /\ resp.rows[2].supporters = 1


(***************************************************************************)
(* Claims on the duplicate review (SpecDup).                               *)
(***************************************************************************)
IsFuzzyList(r) == r.op = "GET /api/fuzzy-duplicates" /\ r.status = 200

\* The voter rows of store d with name and dob, name non-empty, dob not NULL.
Sharing(d, name, dob) ==
  {k \in 1..Len(d.voters) :
     /\ d.voters[k].full_name = name /\ d.voters[k].dob = dob
     /\ name.t = "text" /\ name.s # "" /\ dob.t # "null"}

\* rows lists exactly the (full_name, dob) pairs of store d shared by more
\* than one voter, each once with its count, by cnt descending then name.
ListsSharedPairs(rows, d) ==
  /\ \A i \in 1..Len(rows) :
       /\ rows[i].cnt = Cardinality(Sharing(d, rows[i].full_name, rows[i].dob))
       /\ rows[i].cnt > 1
       /\ \A j \in 1..Len(rows) :
            (rows[j].full_name = rows[i].full_name /\ rows[j].dob = rows[i].dob)
              => j = i
  /\ \A k, m \in 1..Len(d.voters) :
       (k # m /\ k \in Sharing(d, d.voters[m].full_name, d.voters[m].dob))
         => \E i \in 1..Len(rows) :
              rows[i].full_name = d.voters[m].full_name /\ rows[i].dob = d.voters[m].dob
  /\ \A i, j \in 1..Len(rows) :
       i < j => /\ rows[i].cnt >= rows[j].cnt
                /\ rows[i].cnt = rows[j].cnt
                     => ~TextBefore(rows[j].full_name, rows[i].full_name)

\* C11: in every reachable store that has the tables ensureSchema creates,
\* the fuzzy-duplicate list has exactly one row
\* per (full_name, dob) pair shared by more than one voter row with non-empty
\* name and non-NULL dob, with cnt the number of those rows; single voters and
\* voters with NULL dob are in no row; rows are in cnt descending, then
\* full_name ascending order.
C11_FuzzyListsSharedPairs ==
  /\ Ensured(db) =>
       \A o \in GetFuzzyDuplicates(db) :
         IsFuzzyList(o.resp) /\ ListsSharedPairs(o.resp.rows, db)
  /\ IsFuzzyList(resp) => ListsSharedPairs(resp.rows, db)

\* The list was answered with B shared by three voters before A shared by
\* two.
C11_Witness ==
  /\ IsFuzzyList(resp) /\ Len(resp.rows) = 2
  /\ resp.rows[1].full_name = SqlText("B") /\ resp.rows[1].cnt = 3
  /\ resp.rows[2].full_name = SqlText("A") /\ resp.rows[2].cnt = 2

\* C12: in every row of an answered fuzzy-duplicate list each candidate id
\* appears once in candidate_ids.  GROUP_CONCAT(v1.candidate_id) has one entry
\* per voter row, so this fails when one candidate holds two matching rows.
C12_CandidateIdsDistinct ==
  IsFuzzyList(resp) =>
    \A i \in 1..Len(resp.rows) :
      \A j, k \in 1..Len(resp.rows[i].candidate_ids) :
        j # k => resp.rows[i].candidate_ids[j] # resp.rows[i].candidate_ids[k]


(***************************************************************************)
(* Claims on the district distribution (SpecDist).                         *)
(***************************************************************************)
IsPartyDistricts(r) == r.op = "GET /api/party-districts" /\ r.status = 200

IsCandidateView(r) == r.op = "GET /api/candidate/:id" /\ r.status = 200

\* rows is in supporters descending order, equal supporters in official_voters
\* descending order.
TiesByOfficialVoters(rows) ==
  \A i, j \in 1..Len(rows) :
    i < j => /\ rows[i].supporters >= rows[j].supporters
             /\ rows[i].supporters = rows[j].supporters
                  => ~SqlLess(rows[i].official_voters, rows[j].official_voters)

\* C13: every answered district distribution, party-wide or candidate-scoped,
\* is ordered by supporters descending with ties broken by official_voters
\* descending.  The candidate-scoped query sorts by supporters alone and its
\* tied districts come in ascending id order, so this fails for its answers.
C13_DistrictTiesByOfficialVoters ==
  /\ IsPartyDistricts(resp) => TiesByOfficialVoters(resp.rows)
  /\ IsCandidateView(resp) => TiesByOfficialVoters(resp.byDistrict)

\* The voter rows of store d counted for district x: all of that district,
\* or those of candidate id when scoped.
CountedIn(d, x, scoped, id) ==
  {k \in 1..Len(d.voters) :
     /\ d.voters[k].district_id = SqlInt(x)
     /\ scoped => d.voters[k].candidate_id = SqlInt(id)}

\* rows has one row per district of store d, each with its exact count.
OneRowPerDistrict(rows, d, scoped, id) ==
  /\ Len(rows) = Len(d.districts)
  /\ \A i \in 1..Len(d.districts) :
       \E j \in 1..Len(rows) :
         /\ rows[j].district_id = d.districts[i].id
         /\ rows[j].district = d.districts[i].name
         /\ rows[j].official_voters = d.districts[i].official_voters
  /\ \A j \in 1..Len(rows) :
       rows[j].supporters = Cardinality(CountedIn(d, rows[j].district_id, scoped, id))

\* Store d has the column the district distribution reads.
HasOfficialVoters(d) == HasColumns(d, "districts", {"id", "name", "official_voters"})

\* C14: in every reachable store that has districts.official_voters (and, for
\* the candidate full view, vw_weekly_candidate), the district distribution
\* has one row for every existing district; supporters is the number of voter
\* rows of that district (party-wide) or of that district and the requested
\* candidate (candidate-scoped), 0 for a district without such voters; voters
\* with a NULL or dangling district are counted in no row.  The same holds of
\* every party-wide answer on the store it was answered on, and of the
\* byDistrict part of every candidate full view on the store it was read on.
C14_OneRowPerDistrict ==
  /\ [](/\ HasOfficialVoters(db) =>
            \A o \in GetPartyDistricts(db) :
              IsPartyDistricts(o.resp) /\ OneRowPerDistrict(o.resp.rows, db, FALSE, 0)
        /\ (HasOfficialVoters(db) /\ HasView(db, "vw_weekly_candidate")) =>
            \A id \in Ids(db.candidates) :
              \A o \in GetCandidate(db, id) :
                /\ IsCandidateView(o.resp)
                /\ OneRowPerDistrict(o.resp.byDistrict, db, TRUE, id)
        /\ IsPartyDistricts(resp) => OneRowPerDistrict(resp.rows, db, FALSE, 0))
  /\ [][\A k \in 1..MaxCalls :
          (calls[k].pc = "byDistrict" /\ calls'[k].pc = "weekly") =>
            OneRowPerDistrict(calls'[k].parts.byDistrict, db, TRUE, calls[k].id)]_vars

\* The candidate view of candidate 1 was answered with district 1 at one
\* supporter and district 2 at none, while district 1 holds a second voter
\* of candidate 2.
C14_Witness ==
  /\ IsCandidateView(resp) /\ resp.candidate[1].id = 1
  /\ Len(resp.byDistrict) = 2
  /\ resp.byDistrict[1].district_id = 1 /\ resp.byDistrict[1].supporters = 1
  /\ resp.byDistrict[2].supporters = 0
  /\ Len(db.voters) = 2
  /\ \E k \in 1..2 : db.voters[k].candidate_id = SqlInt(2)
                       /\ db.voters[k].district_id = SqlInt(1)


(***************************************************************************)
(* Claims on weekly growth (SpecWeekly).                                   *)
(***************************************************************************)
IsPartyWeekly(r) == r.op = "GET /api/party-weekly" /\ r.status = 200

\* The voter rows of store d in scope: all, or those of candidate id.
InScope(d, scoped, id) ==
  {k \in 1..Len(d.voters) : scoped => d.voters[k].candidate_id = SqlInt(id)}

SumSupporters(rows) ==
  LET F[i \in 0..Len(rows)] == IF i = 0 THEN 0 ELSE F[i - 1] + rows[i].supporters
  IN F[Len(rows)]

\* rows is in ascending yweek order without repeats, every voter in scope is
\* counted in the row of its week and in no other, and the counts add up to
\* the number of voters in scope.
PartitionsByWeek(rows, d, scoped, id) ==
  /\ \A i, j \in 1..Len(rows) : i < j => rows[i].yweek < rows[j].yweek
  /\ \A i \in 1..Len(rows) :
       /\ rows[i].supporters > 0
       /\ rows[i].supporters =
            Cardinality({k \in InScope(d, scoped, id) :
                           d.voters[k].created_at \div 7 = rows[i].yweek})
  /\ \A k \in InScope(d, scoped, id) :
       \E i \in 1..Len(rows) : rows[i].yweek = d.voters[k].created_at \div 7
  /\ SumSupporters(rows) = Cardinality(InScope(d, scoped, id))

\* C15: in every reachable store that has the weekly views, the weekly growth
\* rows (party-wide, and candidate-scoped for every candidate) are in
\* ascending yweek order with no yweek repeated, and every voter row in scope
\* is counted in exactly one bucket, the week of its created_at, so the rows'
\* supporters add up to the number of voter rows in scope.  The same holds of
\* every party-wide answer on the store it was answered on, and of the weekly
\* part of every candidate full view on the store it was read on.
C15_WeeksPartitionVoters ==
  /\ [](/\ HasView(db, "vw_weekly_party") =>
            \A o \in GetPartyWeekly(db) :
              IsPartyWeekly(o.resp) /\ PartitionsByWeek(o.resp.rows, db, FALSE, 0)
        /\ (HasOfficialVoters(db) /\ HasView(db, "vw_weekly_candidate")) =>
            \A id \in Ids(db.candidates) :
              \A o \in GetCandidate(db, id) :
                IsCandidateView(o.resp) /\ PartitionsByWeek(o.resp.weekly, db, TRUE, id)
        /\ IsPartyWeekly(resp) => PartitionsByWeek(resp.rows, db, FALSE, 0))
  /\ [][\A k \in 1..MaxCalls :
          (calls[k].pc = "weekly" /\ calls'[k].pc = "voters") =>
            PartitionsByWeek(calls'[k].parts.weekly, db, TRUE, calls[k].id)]_vars

\* The party-wide rows were answered as week 0 then week 1, one voter each,
\* the voters created on days 4 and 8.
C15_Witness ==
  /\ IsPartyWeekly(resp)
  /\ resp.rows = <<[yweek |-> 0, supporters |-> 1], [yweek |-> 1, supporters |-> 1]>>
  /\ Len(db.voters) = 2
  /\ db.voters[1].created_at = 4 /\ db.voters[2].created_at = 8


(***************************************************************************)
(* Claims on deletions under references (SpecRef).                         *)
(***************************************************************************)
\* Every candidate of store d whose district_id names no district of d is in
\* rows, with a NULL district label.
DanglingListedWithNull(rows, d) ==
  \A i \in 1..Len(d.candidates) :
    (/\ d.candidates[i].district_id.t = "int"
     /\ d.candidates[i].district_id.n \notin Ids(d.districts))
      => \E j \in 1..Len(rows) :
           rows[j].id = d.candidates[i].id /\ rows[j].district = SqlNull

\* C16: in every reachable store that has the tables ensureSchema creates,
\* deleting a district that candidates
\* reference answers ok with one row deleted, leaves every candidate row (its
\* district_id included) and every voter row as it was, and the candidate
\* list read afterwards, then and in every later state, has those candidates
\* with a NULL district label.
C16_DistrictDeleteKeepsCandidates ==
  /\ Ensured(db) =>
       \A id \in Ids(db.districts) :
         LET o == DeleteDistricts(db, id)
         IN /\ o.resp.status = 200 /\ o.resp.ok /\ o.resp.changes = 1
            /\ id \notin Ids(o.db.districts)
            /\ o.db.candidates = db.candidates
            /\ o.db.voters = db.voters
            /\ \A l \in GetCandidatesServer(o.db) :
                 DanglingListedWithNull(l.resp.rows, o.db)
  /\ Ensured(db) =>
       \A l \in GetCandidatesServer(db) : DanglingListedWithNull(l.resp.rows, db)
  /\ (IsCandidateList(resp) /\ resp.by = "server.js")
       => DanglingListedWithNull(resp.rows, db)

\* District 1 has just been deleted while a candidate references it; the
\* candidate row still holds district_id 1.
C16_Witness ==
  /\ resp.op = "DELETE /api/districts/:id" /\ resp.ok /\ resp.changes = 1
  /\ db.districts = <<>>
  /\ \E i \in 1..Len(db.candidates) : db.candidates[i].district_id = SqlInt(1)
  /\ Len(db.voters) >= 1

\* C17: in every reachable store, deleting a candidate answers ok with one row
\* deleted whether or not voters or assistants reference it, removes that
\* candidate row only, leaves every voter and assistant row and every other
\* table as it was, and party progress reports the same supporters before and
\* after.
C17_CandidateDeleteDoesNotCascade ==
  \A id \in Ids(db.candidates) :
    LET o == DeleteCandidates(db, id)
    IN /\ o.resp.status = 200 /\ o.resp.ok /\ o.resp.changes = 1
       /\ o.db.candidates = SelectSeq(db.candidates, LAMBDA c : c.id # id)
       /\ Len(o.db.candidates) = Len(db.candidates) - 1
       /\ o.db.voters = db.voters
       /\ o.db.assistants = db.assistants
       /\ o.db.districts = db.districts /\ o.db.party = db.party
       /\ GetPartyProgressServer(o.db).resp.supporters
            = GetPartyProgressServer(db).resp.supporters
       /\ GetPartyProgressApp(o.db).resp.supporters
            = GetPartyProgressApp(db).resp.supporters

\* Candidate 1 has just been deleted; a voter row and an assistant row still
\* reference it.
C17_Witness ==
  /\ resp.op = "DELETE /api/candidates/:id" /\ resp.ok /\ resp.changes = 1
  /\ db.seq.candidates = 1 /\ db.candidates = <<>>
  /\ \E k \in 1..Len(db.voters) : db.voters[k].candidate_id = SqlInt(1)
  /\ \E k \in 1..Len(db.assistants) : db.assistants[k].candidate_id = SqlInt(1)


(***************************************************************************)
(* Claims on the party row (SpecParty).                                    *)
(***************************************************************************)
\* C18: in every state reachable by party upserts, threshold saves, voter
\* submissions and deletions and candidate creations and deletions, the party
\* table never holds more than one row, every row it holds has id 1, and from
\* the moment ensureSchema has passed its seeding of the party row the table
\* holds exactly one row.
C18_OnePartyRow ==
  /\ Len(db.party) <= 1
  /\ \A i \in 1..Len(db.party) : db.party[i].id = 1
  /\ Len(db.party) = 0 => ~Seeded(boot)

\* The party row was upserted (name P) and its threshold then saved as 0 by
\* POST /api/party-progress.
C18_Witness ==
  /\ resp.op = "POST /api/party-progress" /\ resp.ok
  /\ HasColumns(db, "party", {"name"})
  /\ db.party[1].name = SqlText("P") /\ db.party[1].threshold = SqlInt(0)

(***************************************************************************)
(* Claims on the numbers the admin operations store (SpecAgg).             *)
(***************************************************************************)
\* C19: every stored target, official_voters and threshold is a non-negative
\* integer.  app.js stores +target || 0, so this fails for a negative target.
C19_StoredNumbersNonNegative ==
  /\ \A i \in 1..Len(db.candidates) :
       db.candidates[i].target.t = "int" /\ db.candidates[i].target.n >= 0
  /\ \A i \in 1..Len(db.districts) :
       db.districts[i].official_voters.t = "int"
         /\ db.districts[i].official_voters.n >= 0
  /\ \A i \in 1..Len(db.party) :
       db.party[i].threshold.t = "int" /\ db.party[i].threshold.n >= 0


(***************************************************************************)
(* Claims on name validation (SpecNames).                                  *)
(***************************************************************************)
\* Outcome o of a call on store d is a rejection: 400 and the store as it was.
Rejected(o, d) == o.resp.status = 400 /\ ~o.resp.ok /\ o.db = d

\* C20: in every reachable store, every creation of a governorate, district
\* or candidate and every update of an existing district or candidate whose
\* name is absent or empty is answered 400 and changes nothing.  PUT
\* /api/districts/:id and PUT /api/candidates/:id do not test name, so this
\* fails as soon as a district or candidate exists.
C20_NamelessIsRejected ==
  \A n \in {Undef, JStr("")} :
    /\ Rejected(PostGovernorates(db, [name |-> n]), db)
    /\ Rejected(PostDistricts(db, DistrictBody(n, Undef, Undef)), db)
    /\ Rejected(PostCandidates(db, CandidateBody(n, Undef, Undef)), db)
    /\ \A id \in Ids(db.districts) :
         Rejected(PutDistricts(db, id, DistrictBody(n, Undef, Undef)), db)
    /\ \A id \in Ids(db.candidates) :
         Rejected(PutCandidates(db, id, CandidateBody(n, Undef, Undef)), db)


(***************************************************************************)
(* Claims on the candidate reference of a submission (SpecParty).          *)
(***************************************************************************)
\* C22: in every reachable store, a submission (either file) whose
\* candidate_id matches no candidate row adds no voter row.  Neither handler
\* looks the candidate up and the foreign key is not enforced, so this fails.
C22_UnknownCandidateAddsNoRow ==
  \A f \in Files, b \in PlainVoterBodies :
    IntegerAffinity(Bind(b.candidate_id)) \notin
        {SqlInt(db.candidates[i].id) : i \in 1..Len(db.candidates)}
      => PostVotersOf(f, db, b).db.voters = db.voters


(***************************************************************************)
(* Claims on editing and deleting voter rows (Spec).                       *)
(***************************************************************************)
EditProbes ==
  {VoterBody(c, Undef, Undef, n, Undef, Undef, Undef, k) :
     c \in {Undef, JNum(2)}, n \in {Undef, JStr("B")},
     k \in {JStr(""), JStr("X"), JStr("7"), JNum(7)}}

CardTextOf(x) == IF x.t = "num" THEN ToString(x.n) ELSE x.s

\* Some row of d other than row id holds the non-empty card x.
HeldByOther(d, x, id) ==
  /\ Truthy(x)
  /\ \E i \in 1..Len(d.voters) :
       /\ d.voters[i].id # id
       /\ d.voters[i].electoral_card = SqlText(CardTextOf(x))

RowOf(d, id) == SelectSeq(d.voters, LAMBDA v : v.id = id)

\* C25: in every reachable store and for every edit of row id: when the
\* payload's non-empty card is held by another row the answer is 400 and the
\* store is unchanged, whatever other fields the payload carries; when the
\* row exists and the payload's card is empty or is the row's own card held
\* by no other row, the edit is accepted, changes one row and leaves the row
\* with no card (empty) or with its own card.
C25_EditOntoHeldCardRefused ==
  \A id \in VoterIds, b \in EditProbes :
    LET o == PutVoters(db, id, b)
        x == b.electoral_card
    IN /\ HeldByOther(db, x, id) =>
            /\ o.resp.status = 400 /\ ~o.resp.ok
            /\ o.db = db
       /\ (RowOf(db, id) # <<>> /\ ~HeldByOther(db, x, id)
           /\ (~Truthy(x)
               \/ RowOf(db, id)[1].electoral_card = SqlText(CardTextOf(x)))) =>
            /\ o.resp.status = 200 /\ o.resp.ok /\ o.resp.changes = 1
            /\ RowOf(o.db, id)[1].electoral_card =
                 (IF Truthy(x) THEN RowOf(db, id)[1].electoral_card
                  ELSE SqlNull)
            /\ \A i \in 1..Len(db.voters) :
                 db.voters[i].id # id => o.db.voters[i] = db.voters[i]

\* Row 1 holds X, row 2 holds no card, and an edit was just refused: the edit
\* of row 2 onto X.
C25_Witness ==
  /\ resp.op = "PUT /api/voters/:id" /\ resp.status = 400
  /\ Len(db.voters) = 2
  /\ db.voters[1].electoral_card = SqlText("X")
  /\ db.voters[2].electoral_card.t = "null"

\* A row holds X and an edit setting a card was just accepted.
C25_WitnessAccepted ==
  /\ resp.op = "PUT /api/voters/:id" /\ resp.status = 200 /\ resp.changes = 1
  /\ \E i \in 1..Len(db.voters) : db.voters[i].electoral_card = SqlText("X")


\* C26: in every reachable store that has the tables ensureSchema creates:
\* deleting an id no row has answers 0 changes
\* and leaves the store as it was; deleting the only row that holds the
\* non-empty card X answers 1 change, and the next submission carrying X
\* (valid otherwise) inserts a row holding X and answers {ok, id} with an id
\* no remaining row has.
C26_DeleteFreesCard ==
  Ensured(db) =>
  \A id \in VoterIds :
    LET o == DeleteVoters(db, id)
    IN /\ RowOf(db, id) = <<>> =>
            /\ o.db = db
            /\ o.resp.status = 200 /\ o.resp.ok /\ o.resp.changes = 0
       /\ \A b \in CardProbes :
            (/\ ValidVoter(b)
             /\ RowOf(db, id) # <<>>
             /\ Truthy(b.electoral_card)
             /\ RowOf(db, id)[1].electoral_card =
                  SqlText(CardTextOf(b.electoral_card))
             /\ ~HeldByOther(db, b.electoral_card, id)) =>
              LET p == PostVotersServer(o.db, b)
              IN /\ o.resp.changes = 1
                 /\ RowOf(o.db, id) = <<>>
                 /\ IsCreated(p.resp)
                 /\ RowOf(o.db, p.resp.id) = <<>>
                 /\ Len(p.db.voters) = Len(db.voters)
                 /\ RowOf(p.db, p.resp.id)[1].electoral_card =
                      SqlText(CardTextOf(b.electoral_card))

\* Row 1 is gone, and the submission answered last inserted row 2, the only
\* row, holding X.
C26_Witness ==
  /\ IsCreated(resp) /\ resp.id = 2
  /\ Len(db.voters) = 1
  /\ db.voters[1].id = 2
  /\ db.voters[1].electoral_card = SqlText("X")

\* A deletion of an id no row has was just answered with 0 changes while a
\* row exists.
C26_WitnessAbsent ==
  /\ resp.op = "DELETE /api/voters/:id" /\ resp.changes = 0
  /\ Len(db.voters) > 0


(***************************************************************************)
(* Claims relating the candidate list to party progress (SpecRef).         *)
(***************************************************************************)
\* Every voter row of d has the id of a candidate row of d as candidate_id.
AllVotersReferenceCandidates(d) ==
  \A k \in 1..Len(d.voters) :
    \E i \in 1..Len(d.candidates) :
      d.voters[k].candidate_id = SqlInt(d.candidates[i].id)

\* C27: in every reachable store, the supporters of the entries of the
\* candidate progress list add up to at most the supporters of party progress,
\* and to exactly that number if and only if every voter row references an
\* existing candidate.
C27_ListSumAtMostPartyCount ==
  \A l \in GetCandidatesServer(db) :
    LET listed == SumSupporters(l.resp.rows)
        party == GetPartyProgressServer(db).resp.supporters
    IN /\ listed <= party
       /\ (listed = party) <=> AllVotersReferenceCandidates(db)

\* Party progress just reported 2 supporters while the list, with a candidate
\* in it, adds up to 1: one voter row references no candidate.
C27_Witness ==
  /\ resp.op = "GET /api/party-progress" /\ resp.supporters = 2
  /\ db.candidates # <<>>
  /\ \A l \in GetCandidatesServer(db) : SumSupporters(l.resp.rows) = 1

\* The list was just answered and adds up to the 2 voter rows of the store.
C27_WitnessEqual ==
  /\ resp.op = "GET /api/candidates"
  /\ SumSupporters(resp.rows) = 2 /\ Len(db.voters) = 2


SubmitBodies ==
  {VoterBody(JNum(1), Undef, Undef, JStr("A"), Undef, Undef, Undef, k) :
     k \in {Undef, JStr("X")}}
  \cup
  {VoterBody(JNum(1), Undef, Undef, Undef, Undef, Undef, Undef, JStr("X"))}

InitSubmit ==
  /\ db \in InitialStores
  /\ resp = NoResp
  /\ calls = [k \in 1..MaxCalls |-> IdleRequest]
  /\ boot = BootStart

LastSent(c) == IF c.sent = <<>> THEN resp ELSE c.sent[Len(c.sent)]

ReceiveSubmit(k) ==
  /\ calls[k].pc = "idle"
  /\ \E f \in Files, b \in SubmitBodies :
       /\ calls' = [calls EXCEPT ![k] = BeginSubmitVoter(f, b)]
       /\ resp' = LastSent(calls'[k])
       /\ Arrive(f)
  /\ UNCHANGED db

\* A statement answers with its result or with an error, always with an error
\* when it cannot be prepared on the store.
SelectAnswers(k) ==
  /\ calls[k].pc = "select"
  /\ \E err \in BOOLEAN :
       /\ ~Prepared(db, calls[k]) => err
       /\ calls' = [calls EXCEPT ![k] = OnSelect(db, @, err)]
       /\ resp' = LastSent(calls'[k])
  /\ Continue(k)
  /\ UNCHANGED db

InsertAnswers(k) ==
  /\ calls[k].pc = "insert"
  /\ Continue(k)
  /\ \E err \in BOOLEAN :
       /\ ~Prepared(db, calls[k]) => err
       /\ db' = IF err THEN db
                ELSE InsertVoter(db, calls[k].assistant_id, calls[k].body[1])
       /\ calls' = [calls EXCEPT ![k] = OnInsert(db', @, err)]
       /\ resp' = LastSent(calls'[k])

NextSubmit ==
  \/ EnsureSchema
  \/ \E k \in 1..MaxCalls : ReceiveSubmit(k)
  \/ \E k \in 1..MaxCalls : SelectAnswers(k)
  \/ \E k \in 1..MaxCalls : InsertAnswers(k)

SpecSubmit == InitSubmit /\ [][NextSubmit]_vars

\* sqlite3 calls the callback of every statement it was given, with the result
\* or with the error: a waiting request's statement is eventually answered.
SpecSubmitFair ==
  /\ SpecSubmit
  /\ \A k \in 1..MaxCalls :
       WF_vars(SelectAnswers(k)) /\ WF_vars(InsertAnswers(k))

(***************************************************************************)
(* Claims on the responses of a submission (SpecSubmitFair).               *)
(***************************************************************************)
\* The statements a request may have issued, with the failure that ended it.
SubmitPaths ==
  {<<>>, <<"select">>, <<"select", "failed">>, <<"select", "insert">>,
   <<"select", "insert", "failed">>, <<"insert">>, <<"insert", "failed">>}

\* Request c has at most one response, exactly one once its handler is over
\* and none while a statement is pending; no statement was issued twice or
\* after a failure; and the response is the one of the path taken.
AnsweredOnce(c) ==
  /\ Len(c.sent) <= 1
  /\ c.pc = "done" <=> Len(c.sent) = 1
  /\ c.log \in SubmitPaths
  /\ c.pc \in {"select", "insert"} => c.log[Len(c.log)] = c.pc
  /\ c.pc = "done" =>
       LET r == c.sent[1]
       IN /\ r.by = c.file
          /\ IF ~ValidVoter(c.body[1]) THEN IsBadRequest(r) /\ c.log = <<>>
             ELSE IF c.log # <<>> /\ c.log[Len(c.log)] = "failed"
               THEN r.status = 500 /\ ~r.ok
             ELSE IF c.log = <<"select">> THEN IsDuplicate(r)
             ELSE IsCreated(r)

\* C24: every submission received is eventually answered, and at every moment
\* every request has at most one response, the one of its path (400 on a
\* validation failure, 500 after a failed lookup or a failed insert,
\* {ok, duplicate} on a card found, {ok, id} after the insert), with every
\* statement issued at most once and none after a failure.
C24_EverySubmissionAnsweredOnce ==
  /\ [](\A k \in 1..MaxCalls : AnsweredOnce(calls[k]))
  /\ \A k \in 1..MaxCalls :
       (calls[k].pc # "idle") ~> (calls[k].pc = "done" /\ Len(calls[k].sent) = 1)

\* One request was answered 500 after its insert failed following a lookup
\* that found nothing; the other took the same path, its insert succeeded and
\* it was answered {ok, id}.
C24_Witness ==
  \E j, k \in 1..MaxCalls :
    /\ calls[j].log = <<"select", "insert", "failed">>
    /\ calls[j].sent # <<>> /\ calls[j].sent[1].status = 500
    /\ calls[k].log = <<"select", "insert">>
    /\ calls[k].sent # <<>> /\ IsCreated(calls[k].sent[1])

\* One request inserted the row holding X; the other found the card and was
\* answered {ok, duplicate}.
C24_WitnessDuplicate ==
  \E j, k \in 1..MaxCalls :
    /\ calls[j].log = <<"select", "insert">>
    /\ calls[j].sent # <<>> /\ IsCreated(calls[j].sent[1])
    /\ calls[k].log = <<"select">>
    /\ calls[k].sent # <<>> /\ IsDuplicate(calls[k].sent[1])

\* A request's lookup failed and it was answered 500.
C24_WitnessLookupFailed ==
  \E j \in 1..MaxCalls :
    /\ calls[j].log = <<"select", "failed">>
    /\ calls[j].sent # <<>> /\ calls[j].sent[1].status = 500


\* Submissions for candidate 1 in district 1.
ViewVoterBodies ==
  {VoterBody(JNum(1), Undef, Undef, JStr("A"), Undef, JNum(1), Undef, Undef)}

\* The candidate of the store and an id no candidate has.
ViewIds == {1, 2}

\* Slots 1..MaxViews hold the views, the slot after them a submission.
InitView ==
  /\ db \in InitialStores
  /\ resp = NoResp
  /\ calls = [k \in 1..(MaxViews + 1) |-> IF k <= MaxViews THEN IdleView ELSE IdleCall]
  /\ boot = BootStart

\* No view has been received yet.
NoView == \A k \in 1..MaxViews : calls[k].pc = "idle"

\* District 1 is created, before the first view is received (no handler adds
\* a district to the store ensureSchema creates).
AddViewDistrict ==
  /\ NoView
  /\ db.seq.districts = 0
  /\ Commit(PostDistricts(db, DistrictBody(JStr("D"), JNum(9), Undef)))

\* Candidate 1, of district 1, is created, before the first view is received.
AddViewCandidate ==
  /\ NoView
  /\ db.seq.candidates = 0
  /\ Commit(PostCandidates(db, CandidateBody(JStr("C"), JNum(1), Undef)))

ReceiveView(k) ==
  /\ calls[k].pc = "idle"
  /\ \E f \in Files, id \in ViewIds :
       /\ calls' = [calls EXCEPT ![k] =
                      Issue([IdleView EXCEPT !.file = f, !.id = id], "candidate")]
       /\ Arrive(f)
  /\ UNCHANGED <<db, resp>>

\* A read of request k returns: with rows, or with an error (always so when
\* the statement cannot be prepared on the store).
ReadAnswers(k) ==
  /\ calls[k].pc \in Parts
  /\ LET c == [calls[k] EXCEPT !.at[calls[k].pc] = db.seq.voters]
     IN \/ /\ Prepared(db, c)
           /\ \E rows \in ReadResults(StoreRead(db, c), c) :
                calls' = [calls EXCEPT ![k] = OnRead(c, FALSE, rows)]
        \/ calls' = [calls EXCEPT ![k] = OnRead(c, TRUE, <<>>)]
  /\ resp' = LastSent(calls'[k])
  /\ Continue(k)
  /\ UNCHANGED db

\* A submission is received by app.js while views are in flight.
SubmitViewVoter ==
  /\ calls[MaxViews + 1].pc = "idle"
  /\ db.seq.voters < MaxVoterId
  /\ \E b \in ViewVoterBodies : Step(MaxViews + 1, BeginSubmitVoter("app.js", b))
  /\ Arrive("app.js")
  /\ UNCHANGED db

\* Its INSERT runs, between the reads of the views.
InsertViewVoter ==
  /\ calls[MaxViews + 1].pc = "insert"
  /\ db' = IF Prepared(db, calls[MaxViews + 1])
             THEN InsertVoter(db, calls[MaxViews + 1].assistant_id,
                              calls[MaxViews + 1].body[1])
           ELSE db
  /\ Step(MaxViews + 1, OnInsert(db', calls[MaxViews + 1],
                                 ~Prepared(db, calls[MaxViews + 1])))
  /\ Continue(MaxViews + 1)

NextView ==
  \/ EnsureSchema
  \/ \E k \in 1..MaxViews : ReceiveView(k)
  \/ AddViewDistrict
  \/ AddViewCandidate
  \/ \E k \in 1..MaxViews : ReadAnswers(k)
  \/ SubmitViewVoter
  \/ InsertViewVoter

SpecView == InitView /\ [][NextView]_vars


(***************************************************************************)
(* Claims on the candidate full view (SpecView).                           *)
(***************************************************************************)
\* C21: every answered request of the candidate full view whose last
\* statement failed was answered 500 with ok false, and every one answered
\* 404 had no failed statement and looked up an id no candidate has.  app.js
\* answers 404 when the candidate lookup fails, so this fails.
C21_StoreFailureIs500 ==
  \A k \in 1..MaxViews :
    LET c == calls[k]
    IN c.pc = "done" =>
         /\ c.log[Len(c.log)] = "failed" =>
              c.sent[1].status = 500 /\ ~c.sent[1].ok
         /\ c.sent[1].status = 404 =>
              /\ c.log = <<"candidate">>
              /\ SelectCandidate(db, c.id) = <<>>

\* The parts of request c that were read and returned rows.
PartsRead(c) ==
  {q \in Parts :
     \E i \in 1..Len(c.log) :
       /\ c.log[i] = q
       /\ IF i < Len(c.log) THEN c.log[i + 1] # "failed" ELSE c.pc = "done"}

\* C23: every part a request of the candidate full view holds is a result of
\* its query on the store as it was when that part was read, not as it was
\* at the request's first read; a 200 response carries these parts as they
\* are, and is the request's only response.
C23_PartsReflectOwnReads ==
  \A k \in 1..MaxViews :
    LET c == calls[k]
    IN /\ \A q \in PartsRead(c) :
            c.parts[q] \in ReadResults(StoreAt(db, c.at[q]), [c EXCEPT !.pc = q])
       /\ (c.pc = "done" /\ c.sent[1].status = 200) =>
            /\ Len(c.sent) = 1
            /\ c.sent[1].byDistrict = c.parts.byDistrict
            /\ c.sent[1].weekly = c.parts.weekly
            /\ c.sent[1].voters = c.parts.voters

\* app.js answered a full view whose parts disagree: byDistrict and weekly
\* count no supporter, the voters list read later holds a voter of district 1.
C23_Witness ==
  \E k \in 1..MaxViews :
    /\ calls[k].pc = "done" /\ calls[k].file = "app.js"
    /\ resp = calls[k].sent[1] /\ resp.status = 200
    /\ SumSupporters(resp.byDistrict) = 0
    /\ SumSupporters(resp.weekly) = 0
    /\ Len(resp.voters) = 1
    /\ db.voters[1].district_id = SqlInt(1)

====
